---- MODULE Spec2Model ----
(***************************************************************************)
(* Model of the browser-side reply-drafting modal workflow of              *)
(* email_web_ui/script.js, of the other network call sites of that script  *)
(* and of email_web_ui/chat_script.js.  Strings are sequences of           *)
(* one-character strings, so that escapeHtml, trim and extractEmailAddress *)
(* are computed as the code computes them.  Every invocation of a handler  *)
(* of the reply workflow that reaches an await is an entry of `flows`,     *)
(* every other one an entry of `pending`; its continuation runs when the   *)
(* response of its request has arrived.                                    *)
(***************************************************************************)
EXTENDS Integers, Sequences, FiniteSets, TLC

\* ------------------------------------------------------------------------
\* Bounds
\* ------------------------------------------------------------------------
\* number of asynchronous handler invocations (draft reply / regenerate /
\* send clicks that reach a network call) in one behaviour
MaxFlows == 2
\* number of inbox fetches in flight at the same time
MaxInbox == 1
\* number of chat requests in flight at the same time
MaxChat == 2
\* number of requests (and scheduled checkAuthStatus calls) outside the
\* reply workflow and the chat beyond which no button is clicked
MaxPending == 2
\* number of times the second of the two questions of ChatTexts is around
\* at the same time (typed, in flight, or in chatHistory)
MaxOther == 2
\* length of the subjects the reply subject is computed for
MaxSubjectLen == 3

\* ------------------------------------------------------------------------
\* String literals of the source
\* ------------------------------------------------------------------------
\* Loading email details and drafting reply...  (script.js:186)
S_LoadingStatus ==
    <<"L","o","a","d","i","n","g"," ","e","m","a","i","l"," ","d","e","t","a","i","l","s"," ","a","n","d"," ","d","r","a","f","t","i","n","g"," ","r","e","p","l","y",".",".",".">>
\* Loading...  (script.js:189)
S_Loading ==
    <<"L","o","a","d","i","n","g",".",".",".">>
\* AI is drafting... Please wait.  (script.js:194)
S_Drafting ==
    <<"A","I"," ","i","s"," ","d","r","a","f","t","i","n","g",".",".","."," ","P","l","e","a","s","e"," ","w","a","i","t",".">>
\* Could not fetch details:   (script.js:203)
S_CouldNotFetch ==
    <<"C","o","u","l","d"," ","n","o","t"," ","f","e","t","c","h"," ","d","e","t","a","i","l","s",":"," ">>
\*  -   (script.js:203)
S_Dash ==
    <<" ","-"," ">>
\* Re:   (script.js:218)
S_Re ==
    <<"R","e",":"," ">>
\* re:  (script.js:218)
S_RePrefix ==
    <<"r","e",":">>
\* AI draft generated!  (script.js:234)
S_DraftGenerated ==
    <<"A","I"," ","d","r","a","f","t"," ","g","e","n","e","r","a","t","e","d","!">>
\* Error generating draft:   (script.js:236)
S_ErrGenerating ==
    <<"E","r","r","o","r"," ","g","e","n","e","r","a","t","i","n","g"," ","d","r","a","f","t",":"," ">>
\* Unknown error  (script.js:236)
S_UnknownError ==
    <<"U","n","k","n","o","w","n"," ","e","r","r","o","r">>
\* Error from AI drafter:   (script.js:237)
S_ErrFromDrafter ==
    <<"E","r","r","o","r"," ","f","r","o","m"," ","A","I"," ","d","r","a","f","t","e","r",":"," ">>
\* Error:   (script.js:241)
S_ErrorColon ==
    <<"E","r","r","o","r",":"," ">>
\* Error during drafting process:   (script.js:242)
S_ErrDuringDrafting ==
    <<"E","r","r","o","r"," ","d","u","r","i","n","g"," ","d","r","a","f","t","i","n","g"," ","p","r","o","c","e","s","s",":"," ">>
\* Regenerating AI draft...  (script.js:252)
S_Regenerating ==
    <<"R","e","g","e","n","e","r","a","t","i","n","g"," ","A","I"," ","d","r","a","f","t",".",".",".">>
\* AI is regenerating draft...  (script.js:253)
S_RegeneratingBody ==
    <<"A","I"," ","i","s"," ","r","e","g","e","n","e","r","a","t","i","n","g"," ","d","r","a","f","t",".",".",".">>
\* AI draft regenerated!  (script.js:271)
S_DraftRegenerated ==
    <<"A","I"," ","d","r","a","f","t"," ","r","e","g","e","n","e","r","a","t","e","d","!">>
\* Error regenerating draft:   (script.js:273)
S_ErrRegenerating ==
    <<"E","r","r","o","r"," ","r","e","g","e","n","e","r","a","t","i","n","g"," ","d","r","a","f","t",":"," ">>
\* Could not connect to AI drafter:   (script.js:278)
S_CouldNotConnect ==
    <<"C","o","u","l","d"," ","n","o","t"," ","c","o","n","n","e","c","t"," ","t","o"," ","A","I"," ","d","r","a","f","t","e","r",":"," ">>
\* Original email data not available to regenerate draft. Please close and retry.  (script.js:284)
S_NoOriginal ==
    <<"O","r","i","g","i","n","a","l"," ","e","m","a","i","l"," ","d","a","t","a"," ","n","o","t"," ","a","v","a","i","l","a","b","l","e"," ","t","o"," ","r","e","g","e","n","e","r","a","t","e"," ","d","r","a","f","t","."," ","P","l","e","a","s","e"," ","c","l","o","s","e"," ","a","n","d"," ","r","e","t","r","y",".">>
\* Error: No email context for sending reply.  (script.js:291)
S_NoContext ==
    <<"E","r","r","o","r",":"," ","N","o"," ","e","m","a","i","l"," ","c","o","n","t","e","x","t"," ","f","o","r"," ","s","e","n","d","i","n","g"," ","r","e","p","l","y",".">>
\* To, Subject, and Body are required to send.  (script.js:299)
S_Required ==
    <<"T","o",","," ","S","u","b","j","e","c","t",","," ","a","n","d"," ","B","o","d","y"," ","a","r","e"," ","r","e","q","u","i","r","e","d"," ","t","o"," ","s","e","n","d",".">>
\* Sending reply...  (script.js:302)
S_Sending ==
    <<"S","e","n","d","i","n","g"," ","r","e","p","l","y",".",".",".">>
\* Reply sent successfully via   (script.js:321)
S_SentVia ==
    <<"R","e","p","l","y"," ","s","e","n","t"," ","s","u","c","c","e","s","s","f","u","l","l","y"," ","v","i","a"," ">>
\* !   (script.js:321)
S_Bang ==
    <<"!"," ">>
\* Error sending reply:   (script.js:325)
S_ErrSending ==
    <<"E","r","r","o","r"," ","s","e","n","d","i","n","g"," ","r","e","p","l","y",":"," ">>
\* Unknown error from server  (script.js:325)
S_UnknownServer ==
    <<"U","n","k","n","o","w","n"," ","e","r","r","o","r"," ","f","r","o","m"," ","s","e","r","v","e","r">>
\* Failed to send reply:   (script.js:331)
S_FailedSend ==
    <<"F","a","i","l","e","d"," ","t","o"," ","s","e","n","d"," ","r","e","p","l","y",":"," ">>
\* Khurram  (script.js:26)
USER_NAME_FOR_PROMPT ==
    <<"K","h","u","r","r","a","m">>
\* &amp;  (script.js:345)
S_Amp ==
    <<"&","a","m","p",";">>
\* &lt;  (script.js:345)
S_Lt ==
    <<"&","l","t",";">>
\* &gt;  (script.js:345)
S_Gt ==
    <<"&","g","t",";">>
\* &quot;  (script.js:345)
S_Quot ==
    <<"&","q","u","o","t",";">>
\* &#039;  (script.js:345)
S_Apos ==
    <<"&","#","0","3","9",";">>
\* gmail  (script.js:129)
S_Gmail ==
    <<"g","m","a","i","l">>
\* outlook  (script.js:130)
S_Outlook ==
    <<"o","u","t","l","o","o","k">>

\* Fetching all inbox emails...  (script.js:113)
S_Fetching ==
    <<"F","e","t","c","h","i","n","g"," ","a","l","l"," ","i","n","b","o","x"," ","e","m","a","i","l","s",".",".",".">>
\* Failed to fetch emails:   (script.js:119)
S_FailedFetchEmails ==
    <<"F","a","i","l","e","d"," ","t","o"," ","f","e","t","c","h"," ","e","m","a","i","l","s",":"," ">>
\* Inboxes are empty or no emails fetched.  (script.js:125)
S_InboxEmpty ==
    <<"I","n","b","o","x","e","s"," ","a","r","e"," ","e","m","p","t","y"," ","o","r"," ","n","o"," ","e","m","a","i","l","s"," ","f","e","t","c","h","e","d",".">>
\* Inboxes loaded successfully.  (script.js:164)
S_InboxLoaded ==
    <<"I","n","b","o","x","e","s"," ","l","o","a","d","e","d"," ","s","u","c","c","e","s","s","f","u","l","l","y",".">>
\* Error fetching emails:   (script.js:168)
S_ErrFetchingEmails ==
    <<"E","r","r","o","r"," ","f","e","t","c","h","i","n","g"," ","e","m","a","i","l","s",":"," ">>
\* emails.forEach is not a function  (the TypeError of script.js:128)
S_NotAFunction ==
    <<"e","m","a","i","l","s",".","f","o","r","E","a","c","h"," ","i","s"," ","n","o","t"," ","a"," ","f","u","n","c","t","i","o","n">>
\* <div class="message-content">  (chat_script.js:22)
S_MessageContent ==
    <<"<","d","i","v"," ","c","l","a","s","s","=","\"","m","e","s","s","a","g","e","-","c","o","n","t","e","n","t","\"",">">>
\* <br>  (chat_script.js:22)
S_Br ==
    <<"<","b","r",">">>
\* </div>  (chat_script.js:22)
S_DivEnd ==
    <<"<","/","d","i","v",">">>
\* <div class="sources"><strong>Sources:</strong><ul>  (chat_script.js:25)
S_SourcesOpen ==
    <<"<","d","i","v"," ","c","l","a","s","s","=","\"","s","o","u","r","c","e","s","\"",">","<","s","t","r","o","n","g",">","S","o","u","r","c","e","s",":","<","/","s","t","r","o","n","g",">","<","u","l",">">>
\* <li>  (chat_script.js:27)
S_Li ==
    <<"<","l","i",">">>
\*    (chat_script.js:27)
S_Space ==
    <<" ">>
\* (<a href="  (chat_script.js:27)
S_LinkOpen ==
    <<"(","<","a"," ","h","r","e","f","=","\"">>
\* " target="_blank">link</a>)  (chat_script.js:27)
S_LinkClose ==
    <<"\""," ","t","a","r","g","e","t","=","\"","_","b","l","a","n","k","\"",">","l","i","n","k","<","/","a",">",")">>
\* </li>  (chat_script.js:27)
S_LiEnd ==
    <<"<","/","l","i",">">>
\* </ul></div>  (chat_script.js:29)
S_SourcesClose ==
    <<"<","/","u","l",">","<","/","d","i","v",">">>
\* Error:   (chat_script.js:160 and 164)
S_ChatError ==
    <<"E","r","r","o","r",":"," ">>
\* Could not get a response.  (chat_script.js:160)
S_NoResponse ==
    <<"C","o","u","l","d"," ","n","o","t"," ","g","e","t"," ","a"," ","r","e","s","p","o","n","s","e",".">>
\* <span class="badge   (script.js:131)
S_BadgeOpen ==
    <<"<","s","p","a","n"," ","c","l","a","s","s","=","\"","b","a","d","g","e"," ">>
\* badge-danger  (script.js:129)
S_BadgeDanger ==
    <<"b","a","d","g","e","-","d","a","n","g","e","r">>
\* badge-info  (script.js:129)
S_BadgeInfo ==
    <<"b","a","d","g","e","-","i","n","f","o">>
\*  platform-badge">  (script.js:131)
S_BadgeMid ==
    <<" ","p","l","a","t","f","o","r","m","-","b","a","d","g","e","\"",">">>
\* Gmail  (script.js:130)
S_PlatformGmail ==
    <<"G","m","a","i","l">>
\* Outlook  (script.js:130)
S_PlatformOutlook ==
    <<"O","u","t","l","o","o","k">>
\* </span>  (script.js:131)
S_SpanEnd ==
    <<"<","/","s","p","a","n",">">>
\* N/A  (script.js:133 and 151)
S_NA ==
    <<"N","/","A">>
\* Invalid Date  (toLocaleString of a date that does not parse, script.js:138)
S_InvalidDate ==
    <<"I","n","v","a","l","i","d"," ","D","a","t","e">>
\* <div class="d-flex w-100 justify-content-between"><h5 class="mb-1">  (script.js:147-148)
S_ItemOpen ==
    <<"<","d","i","v"," ","c","l","a","s","s","=","\"","d","-","f","l","e","x"," ","w","-","1","0","0"," ","j","u","s","t","i","f","y","-","c","o","n","t","e","n","t","-","b","e","t","w","e","e","n","\"",">","<","h","5"," ","c","l","a","s","s","=","\"","m","b","-","1","\"",">">>
\* (No Subject)  (script.js:148)
S_NoSubject ==
    <<"(","N","o"," ","S","u","b","j","e","c","t",")">>
\* </h5><small title="  (script.js:148-149)
S_ItemTitle ==
    <<"<","/","h","5",">","<","s","m","a","l","l"," ","t","i","t","l","e","=","\"">>
\* ">  (script.js:149)
S_TagEnd ==
    <<"\"",">">>
\* </small></div><p class="mb-1"><strong>From:</strong>   (script.js:149-151)
S_ItemFrom ==
    <<"<","/","s","m","a","l","l",">","<","/","d","i","v",">","<","p"," ","c","l","a","s","s","=","\"","m","b","-","1","\"",">","<","s","t","r","o","n","g",">","F","r","o","m",":","<","/","s","t","r","o","n","g",">"," ">>
\* </p><small class="email-snippet">  (script.js:151-152)
S_ItemSnippet ==
    <<"<","/","p",">","<","s","m","a","l","l"," ","c","l","a","s","s","=","\"","e","m","a","i","l","-","s","n","i","p","p","e","t","\"",">">>
\* </small><button class="btn btn-sm btn-outline-primary float-right draft-reply-btn" data-platform="  (script.js:152-154)
S_ItemButton ==
    <<"<","/","s","m","a","l","l",">","<","b","u","t","t","o","n"," ","c","l","a","s","s","=","\"","b","t","n"," ","b","t","n","-","s","m"," ","b","t","n","-","o","u","t","l","i","n","e","-","p","r","i","m","a","r","y"," ","f","l","o","a","t","-","r","i","g","h","t"," ","d","r","a","f","t","-","r","e","p","l","y","-","b","t","n","\""," ","d","a","t","a","-","p","l","a","t","f","o","r","m","=","\"">>
\* " data-id="  (script.js:155)
S_DataId ==
    <<"\""," ","d","a","t","a","-","i","d","=","\"">>
\* " data-thread-id="  (script.js:156)
S_DataThreadId ==
    <<"\""," ","d","a","t","a","-","t","h","r","e","a","d","-","i","d","=","\"">>
\* " data-message-id-header="  (script.js:157)
S_DataMessageId ==
    <<"\""," ","d","a","t","a","-","m","e","s","s","a","g","e","-","i","d","-","h","e","a","d","e","r","=","\"">>
\* " data-references-header="  (script.js:158)
S_DataReferences ==
    <<"\""," ","d","a","t","a","-","r","e","f","e","r","e","n","c","e","s","-","h","e","a","d","e","r","=","\"">>
\* " data-in-reply-to-header="  (script.js:159)
S_DataInReplyTo ==
    <<"\""," ","d","a","t","a","-","i","n","-","r","e","p","l","y","-","t","o","-","h","e","a","d","e","r","=","\"">>
\* ">Draft Reply</button>  (script.js:160)
S_ItemClose ==
    <<"\"",">","D","r","a","f","t"," ","R","e","p","l","y","<","/","b","u","t","t","o","n",">">>
\* <li class="list-group-item list-group-item-danger">Error loading emails:   (script.js:167)
S_ErrItemOpen ==
    <<"<","l","i"," ","c","l","a","s","s","=","\"","l","i","s","t","-","g","r","o","u","p","-","i","t","e","m"," ","l","i","s","t","-","g","r","o","u","p","-","i","t","e","m","-","d","a","n","g","e","r","\"",">","E","r","r","o","r"," ","l","o","a","d","i","n","g"," ","e","m","a","i","l","s",":"," ">>
\* Auth status check failed:   (script.js:62)
S_AuthFailed ==
    <<"A","u","t","h"," ","s","t","a","t","u","s"," ","c","h","e","c","k"," ","f","a","i","l","e","d",":"," ">>
\* Gmail: Connected  (script.js:67)
S_GmailConnected ==
    <<"G","m","a","i","l",":"," ","C","o","n","n","e","c","t","e","d">>
\* Gmail: Not Connected  (script.js:71)
S_GmailNotConnected ==
    <<"G","m","a","i","l",":"," ","N","o","t"," ","C","o","n","n","e","c","t","e","d">>
\* Outlook: Connected  (script.js:77)
S_OutlookConnected ==
    <<"O","u","t","l","o","o","k",":"," ","C","o","n","n","e","c","t","e","d">>
\* Outlook: Not Connected / Not on Windows  (script.js:80)
S_OutlookNotConnected ==
    <<"O","u","t","l","o","o","k",":"," ","N","o","t"," ","C","o","n","n","e","c","t","e","d"," ","/"," ","N","o","t"," ","o","n"," ","W","i","n","d","o","w","s">>
\* Gmail: Error  (script.js:85)
S_GmailError ==
    <<"G","m","a","i","l",":"," ","E","r","r","o","r">>
\* Outlook: Error  (script.js:86)
S_OutlookError ==
    <<"O","u","t","l","o","o","k",":"," ","E","r","r","o","r">>
\* Failed to check auth status:   (script.js:89)
S_FailedAuthCheck ==
    <<"F","a","i","l","e","d"," ","t","o"," ","c","h","e","c","k"," ","a","u","t","h"," ","s","t","a","t","u","s",":"," ">>
\* . Ensure backend is running.  (script.js:89)
S_EnsureBackend ==
    <<"."," ","E","n","s","u","r","e"," ","b","a","c","k","e","n","d"," ","i","s"," ","r","u","n","n","i","n","g",".">>
\* Attempting to connect Gmail. A browser window might open on your server for authentication (if running Flask locally)...  (script.js:94)
S_Attempting ==
    <<"A","t","t","e","m","p","t","i","n","g"," ","t","o"," ","c","o","n","n","e","c","t"," ","G","m","a","i","l","."," ","A"," ","b","r","o","w","s","e","r"," ","w","i","n","d","o","w"," ","m","i","g","h","t"," ","o","p","e","n"," ","o","n"," ","y","o","u","r"," ","s","e","r","v","e","r"," ","f","o","r"," ","a","u","t","h","e","n","t","i","c","a","t","i","o","n"," ","(","i","f"," ","r","u","n","n","i","n","g"," ","F","l","a","s","k"," ","l","o","c","a","l","l","y",")",".",".",".">>
\*  Auth status will refresh shortly.  (script.js:100)
S_WillRefresh ==
    <<" ","A","u","t","h"," ","s","t","a","t","u","s"," ","w","i","l","l"," ","r","e","f","r","e","s","h"," ","s","h","o","r","t","l","y",".">>
\* Gmail connection failed:   (script.js:102)
S_GmailFailed ==
    <<"G","m","a","i","l"," ","c","o","n","n","e","c","t","i","o","n"," ","f","a","i","l","e","d",":"," ">>
\* Error initiating Gmail connection:   (script.js:105)
S_ErrInitGmail ==
    <<"E","r","r","o","r"," ","i","n","i","t","i","a","t","i","n","g"," ","G","m","a","i","l"," ","c","o","n","n","e","c","t","i","o","n",":"," ">>
\* {"error":"  (the body of an error answer as text, script.js:61)
S_JsonErrOpen ==
    <<"{","\"","e","r","r","o","r","\"",":","\"">>
\* "}  (the body of an error answer as text, script.js:61)
S_JsonErrClose ==
    <<"\"","}">>
\* Error listing docs:   (chat_script.js:43)
S_ErrListing ==
    <<"E","r","r","o","r"," ","l","i","s","t","i","n","g"," ","d","o","c","s",":"," ">>
\* Knowledge base loaded with   (chat_script.js:63)
S_KbLoadedWith ==
    <<"K","n","o","w","l","e","d","g","e"," ","b","a","s","e"," ","l","o","a","d","e","d"," ","w","i","t","h"," ">>
\*  unique source documents.  (chat_script.js:63)
S_UniqueDocs ==
    <<" ","u","n","i","q","u","e"," ","s","o","u","r","c","e"," ","d","o","c","u","m","e","n","t","s",".">>
\* Knowledge base is empty. Please update.  (chat_script.js:69)
S_KbEmpty ==
    <<"K","n","o","w","l","e","d","g","e"," ","b","a","s","e"," ","i","s"," ","e","m","p","t","y","."," ","P","l","e","a","s","e"," ","u","p","d","a","t","e",".">>
\* Error fetching indexed docs list:   (chat_script.js:74)
S_ErrFetchingDocs ==
    <<"E","r","r","o","r"," ","f","e","t","c","h","i","n","g"," ","i","n","d","e","x","e","d"," ","d","o","c","s"," ","l","i","s","t",":"," ">>
\* Updating knowledge base... This may take several minutes depending on the number of documents.  (chat_script.js:79)
S_Updating ==
    <<"U","p","d","a","t","i","n","g"," ","k","n","o","w","l","e","d","g","e"," ","b","a","s","e",".",".","."," ","T","h","i","s"," ","m","a","y"," ","t","a","k","e"," ","s","e","v","e","r","a","l"," ","m","i","n","u","t","e","s"," ","d","e","p","e","n","d","i","n","g"," ","o","n"," ","t","h","e"," ","n","u","m","b","e","r"," ","o","f"," ","d","o","c","u","m","e","n","t","s",".">>
\* Knowledge base update completed.  (chat_script.js:86)
S_UpdateCompleted ==
    <<"K","n","o","w","l","e","d","g","e"," ","b","a","s","e"," ","u","p","d","a","t","e"," ","c","o","m","p","l","e","t","e","d",".">>
\* Error updating knowledge base:   (chat_script.js:89)
S_ErrUpdating ==
    <<"E","r","r","o","r"," ","u","p","d","a","t","i","n","g"," ","k","n","o","w","l","e","d","g","e"," ","b","a","s","e",":"," ">>
\* Failed to update knowledge base:   (chat_script.js:93)
S_FailedUpdate ==
    <<"F","a","i","l","e","d"," ","t","o"," ","u","p","d","a","t","e"," ","k","n","o","w","l","e","d","g","e"," ","b","a","s","e",":"," ">>
\* Attempting to initiate Microsoft Graph connection... Follow backend console instructions if device flow starts.  (chat_script.js:106)
S_AttemptingMs ==
    <<"A","t","t","e","m","p","t","i","n","g"," ","t","o"," ","i","n","i","t","i","a","t","e"," ","M","i","c","r","o","s","o","f","t"," ","G","r","a","p","h"," ","c","o","n","n","e","c","t","i","o","n",".",".","."," ","F","o","l","l","o","w"," ","b","a","c","k","e","n","d"," ","c","o","n","s","o","l","e"," ","i","n","s","t","r","u","c","t","i","o","n","s"," ","i","f"," ","d","e","v","i","c","e"," ","f","l","o","w"," ","s","t","a","r","t","s",".">>
\* Microsoft authentication required. Check backend console for device flow instructions if prompted, or ensure token cache is valid.  (chat_script.js:115)
S_MsAuthRequired ==
    <<"M","i","c","r","o","s","o","f","t"," ","a","u","t","h","e","n","t","i","c","a","t","i","o","n"," ","r","e","q","u","i","r","e","d","."," ","C","h","e","c","k"," ","b","a","c","k","e","n","d"," ","c","o","n","s","o","l","e"," ","f","o","r"," ","d","e","v","i","c","e"," ","f","l","o","w"," ","i","n","s","t","r","u","c","t","i","o","n","s"," ","i","f"," ","p","r","o","m","p","t","e","d",","," ","o","r"," ","e","n","s","u","r","e"," ","t","o","k","e","n"," ","c","a","c","h","e"," ","i","s"," ","v","a","l","i","d",".">>
\* Knowledge base update process completed/started.  (chat_script.js:118)
S_UpdateStarted ==
    <<"K","n","o","w","l","e","d","g","e"," ","b","a","s","e"," ","u","p","d","a","t","e"," ","p","r","o","c","e","s","s"," ","c","o","m","p","l","e","t","e","d","/","s","t","a","r","t","e","d",".">>
\* Microsoft auth check:   (chat_script.js:122)
S_MsAuthCheck ==
    <<"M","i","c","r","o","s","o","f","t"," ","a","u","t","h"," ","c","h","e","c","k",":"," ">>
\* Error with Microsoft connection:   (chat_script.js:126)
S_ErrMs ==
    <<"E","r","r","o","r"," ","w","i","t","h"," ","M","i","c","r","o","s","o","f","t"," ","c","o","n","n","e","c","t","i","o","n",":"," ">>

\* ------------------------------------------------------------------------
\* String functions
\* ------------------------------------------------------------------------
\* the value of a property that an object does not have; it is no string
undefined == <<"undefined">>

\* obj.field
Get(obj, field) == IF field \in DOMAIN obj THEN obj[field] ELSE undefined

\* `${x}`: undefined is spelled out
Str(x) == IF x = undefined THEN <<"u","n","d","e","f","i","n","e","d">> ELSE x

\* value || fallback
Or(value, fallback) == IF value \in {undefined, <<>>} THEN fallback ELSE value

\* the sequence without its i-th element (the request of a handler that is over)
Remove(seq, i) == SubSeq(seq, 1, i - 1) \o SubSeq(seq, i + 1, Len(seq))

RECURSIVE escapeHtml(_)
\* escapeHtml: & < > " ' are replaced by their entities
escapeHtml(unsafe) ==
    IF unsafe = undefined \/ unsafe = <<>> THEN <<>>
    ELSE LET c == Head(unsafe)
             e == CASE c = "&"  -> S_Amp
                    [] c = "<"  -> S_Lt
                    [] c = ">"  -> S_Gt
                    [] c = "\"" -> S_Quot
                    [] c = "'"  -> S_Apos
                    [] OTHER    -> <<c>>
         IN  e \o escapeHtml(Tail(unsafe))

\* white space removed by String.prototype.trim
IsSpace(c) == c \in {" ", "\n", "\t"}

RECURSIVE trimStart(_)
trimStart(s) ==
    IF s # <<>> /\ IsSpace(Head(s)) THEN trimStart(Tail(s)) ELSE s

RECURSIVE trimEnd(_)
trimEnd(s) ==
    IF s # <<>> /\ IsSpace(s[Len(s)]) THEN trimEnd(SubSeq(s, 1, Len(s) - 1)) ELSE s

\* String.prototype.trim
trim(s) == trimEnd(trimStart(s))

\* the characters of the class [\w\.-]
WordChars ==
    {"a","b","c","d","e","f","g","h","i","j","k","l","m","n","o","p","q","r",
     "s","t","u","v","w","x","y","z",
     "A","B","C","D","E","F","G","H","I","J","K","L","M","N","O","P","Q","R",
     "S","T","U","V","W","X","Y","Z",
     "0","1","2","3","4","5","6","7","8","9","_",".","-"}

\* the end of the longest run of [\w\.-] characters that starts at i
\* (i - 1 when s[i] is not such a character)
RECURSIVE RunEnd(_, _)
RunEnd(s, i) ==
    IF i <= Len(s) /\ s[i] \in WordChars THEN RunEnd(s, i + 1) ELSE i - 1

\* /([\w\.-]+@[\w\.-]+)/ matches at start position i
MatchesAt(s, i) ==
    LET j == RunEnd(s, i)
    IN  /\ j >= i
        /\ j + 2 <= Len(s)
        /\ s[j + 1] = "@"
        /\ s[j + 2] \in WordChars

\* extractEmailAddress: the leftmost match of the pattern, else the header
extractEmailAddress(fromHeader) ==
    IF fromHeader = undefined \/ fromHeader = <<>> THEN <<>>
    ELSE LET starts == {i \in 1..Len(fromHeader) : MatchesAt(fromHeader, i)}
         IN  IF starts = {} THEN fromHeader
             ELSE LET i == CHOOSE k \in starts : \A m \in starts : k <= m
                      j == RunEnd(fromHeader, i)
                  IN  SubSeq(fromHeader, i, RunEnd(fromHeader, j + 2))

UpperAlpha == <<"A","B","C","D","E","F","G","H","I","J","K","L","M","N","O","P","Q","R","S","T","U","V","W","X","Y","Z">>
LowerAlpha == <<"a","b","c","d","e","f","g","h","i","j","k","l","m","n","o","p","q","r","s","t","u","v","w","x","y","z">>

\* String.prototype.toLowerCase
toLowerCase(s) ==
    [i \in 1..Len(s) |->
        IF \E k \in 1..26 : UpperAlpha[k] = s[i]
        THEN LowerAlpha[CHOOSE k \in 1..26 : UpperAlpha[k] = s[i]]
        ELSE s[i]]

\* String.prototype.startsWith
startsWith(s, p) == Len(s) >= Len(p) /\ SubSeq(s, 1, Len(p)) = p

\* the pre-filled reply subject
\* mutant: the prefix is compared as it is written
ReplySubjectCaseSensitive(subject) ==
    IF subject \notin {undefined, <<>>} /\ startsWith(subject, S_RePrefix)
    THEN subject
    ELSE S_Re \o (IF subject = undefined THEN <<>> ELSE subject)

ReplySubject(subject) ==
    IF subject \notin {undefined, <<>>} /\ startsWith(toLowerCase(subject), S_RePrefix)
    THEN subject
    ELSE S_Re \o (IF subject = undefined THEN <<>> ELSE subject)

\* ------------------------------------------------------------------------
\* The backend, as far as the page sees it
\* ------------------------------------------------------------------------
\* the emails of the combined inbox, as /emails lists them
Emails ==
    { [platform |-> S_Gmail, id |-> <<"a","1">>, threadId |-> <<"t","1">>,
       message_id_header |-> <<"m","1">>, references_header |-> <<"r","1">>,
       in_reply_to_header |-> <<"i","1">>],
      [platform |-> S_Outlook, id |-> <<"b","2">>, threadId |-> <<>>,
       message_id_header |-> <<"m","2">>, references_header |-> <<>>,
       in_reply_to_header |-> <<>>] }

\* the payload of /email-details for the email with identifier id
DetailsOf(id) ==
    IF id = <<"a","1">>
    THEN [from |-> <<"A","l"," ","<","a","l","@","x",".","i","o",">">>,
          subject |-> <<"H","i"," ","&"," ","b","y","e">>, body |-> <<"o","n","e">>,
          in_reply_to_header |-> <<"i","1">>, references_header |-> <<"r","1">>]
    ELSE [from |-> <<"b","o","b">>, subject |-> <<"R","E",":"," ","t","w","o">>, body |-> <<"t","w","o">>,
          in_reply_to_header |-> <<"i","2">>, references_header |-> <<"r","2">>]

\* the error text of a backend error payload
ErrText == <<"b","o","o","m">>
\* the message of the error a rejected fetch throws
NetErrMsg == <<"F","a","i","l","e","d"," ","t","o"," ","f","e","t","c","h">>
\* the status code of a failed HTTP response
Status500 == <<"5","0","0">>
\* the message field of a /send-platform-reply answer
SendMsg == <<"s","e","n","t">>

\* the status field of a /send-platform-reply answer
S_Success == <<"s","u","c","c","e","s","s">>
S_Error == <<"e","r","r","o","r">>

\* a rejected fetch (or a body that is not JSON)
Rejected == [kind |-> "reject"]
HttpResp(ok, status, json) == [kind |-> "http", ok |-> ok, status |-> status, json |-> json]

\* the draft the AI writes for a draft request
DraftFor(req) == <<"D","e","a","r"," ">> \o req.sender

\* the answer of the chat backend to a question
AnswerFor(query) == <<"r","e"," ">> \o query
\* the documents the answer cites
SourcesFor(query) ==
    IF query = <<"a">> THEN << [name |-> <<"d","o","c">>, webUrl |-> <<"u","r","l">>] >>
    ELSE <<>>

\* what the backend can answer to a request
Responses(req) ==
    CASE req.url = "email-details" ->
            { HttpResp(TRUE, <<"2","0","0">>, DetailsOf(req.id)),
              HttpResp(TRUE, <<"2","0","0">>, [error |-> ErrText]),
              HttpResp(FALSE, Status500, [error |-> ErrText]),
              Rejected }
      [] req.url = "draft-ai-reply" ->
            { HttpResp(TRUE, <<"2","0","0">>, [draft |-> DraftFor(req)]),
              HttpResp(TRUE, <<"2","0","0">>, [error |-> ErrText]),
              HttpResp(FALSE, Status500, [error |-> ErrText]),
              Rejected }
      [] req.url = "send-platform-reply" ->
            { HttpResp(TRUE, <<"2","0","0">>, [status |-> S_Success, message |-> SendMsg]),
              HttpResp(TRUE, <<"2","0","0">>, [status |-> S_Error, message |-> ErrText]),
              HttpResp(FALSE, Status500, [status |-> S_Error, message |-> ErrText]),
              Rejected }
      [] req.url = "chat-with-sp-docs" ->
            { HttpResp(TRUE, <<"2","0","0">>,
                       [response |-> AnswerFor(req.query), sources |-> SourcesFor(req.query)]),
              HttpResp(TRUE, <<"2","0","0">>, [error |-> ErrText]),
              HttpResp(TRUE, <<"2","0","0">>, [sources |-> <<>>]),
              HttpResp(FALSE, Status500, [error |-> ErrText]),
              Rejected }
      [] req.url = "auth-status" ->
            { HttpResp(TRUE, <<"2","0","0">>, [gmail |-> TRUE, outlook |-> TRUE]),
              HttpResp(TRUE, <<"2","0","0">>, [gmail |-> FALSE, outlook |-> FALSE]),
              HttpResp(TRUE, <<"2","0","0">>, [error |-> ErrText]),
              HttpResp(FALSE, Status500, [error |-> ErrText]),
              Rejected }
      [] req.url = "initiate-gmail-auth" ->
            { HttpResp(TRUE, <<"2","0","0">>, [status |-> S_Success, message |-> SendMsg]),
              HttpResp(TRUE, <<"2","0","0">>, [status |-> S_Error, message |-> ErrText]),
              HttpResp(TRUE, <<"2","0","0">>, [error |-> ErrText]),
              HttpResp(FALSE, Status500, [error |-> ErrText]),
              Rejected }
      [] req.url = "list-indexed-documents" ->
            { HttpResp(TRUE, <<"2","0","0">>,
                       [documents |-> << [name |-> <<"d","o","c">>, webUrl |-> <<"u","r","l">>] >>]),
              HttpResp(TRUE, <<"2","0","0">>, [documents |-> <<>>]),
              HttpResp(TRUE, <<"2","0","0">>, [error |-> ErrText]),
              HttpResp(FALSE, Status500, [error |-> ErrText]),
              Rejected }
      [] req.url = "update-knowledgebase" ->
            { HttpResp(TRUE, <<"2","0","0">>, [message |-> SendMsg]),
              HttpResp(TRUE, <<"2","0","0">>, [error |-> ErrText]),
              HttpResp(FALSE, <<"4","0","1">>, [error |-> ErrText]),
              HttpResp(FALSE, Status500, [error |-> ErrText]),
              Rejected }
      [] req.url = "emails" ->
            { HttpResp(TRUE, <<"2","0","0">>, [array |-> Emails]),
              HttpResp(TRUE, <<"2","0","0">>, [array |-> {}]),
              HttpResp(TRUE, <<"2","0","0">>, [error |-> ErrText]),
              HttpResp(FALSE, Status500, [error |-> ErrText]),
              Rejected }
      [] OTHER -> {}

\* obj.field is truthy: present and not the empty string
Truthy(json, field) == Get(json, field) \notin {undefined, <<>>}

\* ------------------------------------------------------------------------
\* State
\* ------------------------------------------------------------------------
VARIABLES
    currentEmailForReply,   \* the selected email, or Null
    modalOriginalSender,    \* textContent of the read-only display fields
    modalOriginalSubject,
    modalOriginalBody,
    modalReplyTo,           \* value of the editable reply fields
    modalReplySubject,
    modalReplyBody,
    sendReplyBtnModal,      \* [disabled |-> BOOLEAN]
    regenerateDraftBtnModal,
    modalStatusMessages,    \* the alert shown in the modal, or NoStatus
    draftModal,             \* [shown |-> BOOLEAN, hideTimers |-> pending setTimeout(hide)]
    flows,                  \* handler invocations that reached an await
    emailListEl,            \* what the inbox list shows
    inboxInFlight,          \* /emails requests in flight
    statusMessagesGlobalDiv, \* the alert shown above the inbox, or NoStatus
    gmailAuthStatusEl,      \* textContent of the two connection badges
    outlookAuthStatusEl,
    connectGmailBtn,        \* [disabled |-> BOOLEAN, display |-> STRING]
    authTimers,             \* pending setTimeout(checkAuthStatus, 3000)
    userInput,              \* value of the chat input field
    sendBtn,                \* [disabled |-> BOOLEAN]
    chatHistory,            \* sequence of [role, content]
    chatMessagesDiv,        \* the message appended last to the chat display
    kbStatusDiv,            \* [type, message] of the knowledge-base status
    indexedDocsListEl,      \* what the list of indexed documents shows
    updateKbBtn,            \* [disabled |-> BOOLEAN]
    connectMsGraphBtn,
    pending,                \* requests in flight outside the reply workflow
    arg,                    \* the backend payload a rendering step works on
    innerHTML,              \* the HTML string written by a rendering step
    scope                   \* the part of the two pages the user works with

fields == <<modalOriginalSender, modalOriginalSubject, modalOriginalBody,
            modalReplyTo, modalReplySubject, modalReplyBody>>
controls == <<sendReplyBtnModal, regenerateDraftBtnModal>>
inbox == <<emailListEl, inboxInFlight, statusMessagesGlobalDiv>>
auth == <<gmailAuthStatusEl, outlookAuthStatusEl, connectGmailBtn, authTimers>>
chat == <<userInput, sendBtn, chatHistory, chatMessagesDiv>>
kb == <<kbStatusDiv, indexedDocsListEl, updateKbBtn, connectMsGraphBtn>>
render == <<arg, innerHTML>>
\* what the handlers of the reply workflow never touch
elsewhere == <<auth, chat, kb, pending, render, scope>>
vars == <<currentEmailForReply, fields, controls, modalStatusMessages,
          draftModal, flows, inbox, elsewhere>>

Null == [null |-> TRUE]
NoStatus == [type |-> "none"]
\* no request in flight
NoReq == [url |-> "none"]

\* displayModalStatus: the alert replaces the previous one; an alert that is
\* not persistent and neither danger nor warning closes itself after 7 s
displayModalStatus(message, type, persistent) ==
    [type |-> type, message |-> message,
     autoClose |-> (~persistent /\ type \notin {"danger", "warning"})]

\* displayGlobalStatus: the alert replaces the previous one; a success or
\* info alert that is not persistent closes itself after 7 s
displayGlobalStatus(message, type, persistent) ==
    [type |-> type, message |-> message,
     autoClose |-> (~persistent /\ type \in {"success", "info"})]

Disabled == [disabled |-> TRUE]
Enabled == [disabled |-> FALSE]

\* the chat display is empty
NoMessage == [sender |-> "none"]

\* a handler suspended at `await fetch(req)`
Flow(kind, pc, req) == [kind |-> kind, pc |-> pc, req |-> req]

\* The state after DOMContentLoaded.  script.js and chat_script.js share no
\* state, and within script.js the reply workflow shares with the rest only
\* the inbox list and the global status; a behaviour follows the handlers
\* of one part (scope): the reply workflow ("reply"), the connection status
\* and the inbox ("mail"), the chat ("chat") or the knowledge base ("kb").
\* The first two are on the page of script.js, whose load calls
\* checkAuthStatus and fetchAndDisplayEmails; the other two on the page of
\* chat_script.js, whose load calls fetchAndDisplayIndexedDocs.
\* the number of handler invocations a behaviour follows: the delayed close
\* of the modal is followed over one invocation more (click, send, click)
FlowLimit == IF scope = "close" THEN MaxFlows + 1 ELSE MaxFlows

Constructed(part) ==
    /\ scope = part
    /\ currentEmailForReply = Null
    /\ modalOriginalSender = <<>>
    /\ modalOriginalSubject = <<>>
    /\ modalOriginalBody = <<>>
    /\ modalReplyTo = <<>>
    /\ modalReplySubject = <<>>
    /\ modalReplyBody = <<>>
    /\ sendReplyBtnModal = Enabled
    /\ regenerateDraftBtnModal = Enabled
    /\ modalStatusMessages = NoStatus
    /\ draftModal = [shown |-> FALSE, hideTimers |-> 0]
    /\ flows = <<>>
    /\ emailListEl = "loading"
    /\ inboxInFlight = IF part \in {"reply", "mail", "close"} THEN 1 ELSE 0
    /\ statusMessagesGlobalDiv =
            IF part \in {"reply", "mail", "close"}
            THEN displayGlobalStatus(S_Fetching, "info", FALSE) ELSE NoStatus
    /\ gmailAuthStatusEl = <<>>
    /\ outlookAuthStatusEl = <<>>
    /\ connectGmailBtn = [disabled |-> FALSE, display |-> "initial"]
    /\ authTimers = 0
    /\ userInput = <<>>
    /\ sendBtn = Enabled
    /\ chatHistory = <<>>
    /\ chatMessagesDiv = NoMessage
    /\ kbStatusDiv = NoStatus
    /\ indexedDocsListEl = "initial"
    /\ updateKbBtn = Enabled
    /\ connectMsGraphBtn = Enabled
    /\ pending = IF part \in {"reply", "mail", "close"} THEN << [url |-> "auth-status"] >>
                 ELSE IF part \in {"chat", "kb"} THEN << [url |-> "list-indexed-documents"] >>
                 ELSE <<>>
    /\ innerHTML = Null

\* the page of script.js, with the user at the reply workflow
Init == Constructed("reply") /\ arg = Null

\* ------------------------------------------------------------------------
\* Inbox list
\* ------------------------------------------------------------------------
\* fetchAndDisplayEmails up to its await
fetchAndDisplayEmails ==
    /\ statusMessagesGlobalDiv' = displayGlobalStatus(S_Fetching, "info", FALSE)
    /\ emailListEl' = "loading"
    /\ inboxInFlight' = inboxInFlight + 1

\* the refresh button
RefreshClick ==
    /\ inboxInFlight < MaxInbox
    /\ fetchAndDisplayEmails
    /\ UNCHANGED <<currentEmailForReply, fields, controls, modalStatusMessages,
                   draftModal, flows, elsewhere>>

\* error.message of what fetchAndDisplayEmails throws: the rejected fetch,
\* the Error of line 119, or the TypeError of emails.forEach on a payload
\* that is no array
InboxErrorMessage(resp) ==
    CASE resp.kind = "reject" -> NetErrMsg
      [] resp.kind = "http" /\ ~resp.ok ->
            S_FailedFetchEmails \o resp.status \o S_Dash \o Str(Get(resp.json, "error"))
      [] OTHER -> S_NotAFunction

\* fetchAndDisplayEmails after its await
InboxResolve(resp) ==
    /\ inboxInFlight > 0
    /\ resp \in Responses([url |-> "emails"])
    /\ inboxInFlight' = inboxInFlight - 1
    /\ IF resp.kind = "http" /\ resp.ok /\ "array" \in DOMAIN resp.json
       THEN IF resp.json.array = {}
            THEN /\ emailListEl' = "empty"
                 /\ statusMessagesGlobalDiv' = displayGlobalStatus(S_InboxEmpty, "info", FALSE)
            ELSE /\ emailListEl' = "loaded"
                 /\ statusMessagesGlobalDiv' = displayGlobalStatus(S_InboxLoaded, "success", FALSE)
       ELSE /\ emailListEl' = "error"
            /\ statusMessagesGlobalDiv' =
                 displayGlobalStatus(S_ErrFetchingEmails \o InboxErrorMessage(resp), "danger", TRUE)
    /\ UNCHANGED <<currentEmailForReply, fields, controls, modalStatusMessages,
                   draftModal, flows, elsewhere>>

\* ------------------------------------------------------------------------
\* "Draft Reply" click
\* ------------------------------------------------------------------------
\* the handler's first await: GET /email-details?platform=..&id=..
FirstRequest(email) ==
    Flow("reply", "details",
         [url |-> "email-details", platform |-> email.platform, id |-> email.id])

DraftReplyClick(email) ==
    /\ emailListEl = "loaded"
    /\ Len(flows) < FlowLimit
    /\ currentEmailForReply' =
            [platform |-> email.platform, id |-> email.id,
             threadId |-> email.threadId,
             messageIdHeader |-> email.message_id_header,
             referencesHeader |-> email.references_header,
             inReplyToHeader |-> email.in_reply_to_header,
             fullDetails |-> Null]
    /\ modalStatusMessages' = displayModalStatus(S_LoadingStatus, "info", FALSE)
    /\ draftModal' = [draftModal EXCEPT !.shown = TRUE]
    /\ modalOriginalSender' = S_Loading
    /\ modalOriginalSubject' = S_Loading
    /\ modalOriginalBody' = S_Loading
    /\ modalReplyTo' = <<>>
    /\ modalReplySubject' = <<>>
    /\ modalReplyBody' = S_Drafting
    /\ sendReplyBtnModal' = Disabled
    /\ regenerateDraftBtnModal' = Disabled
    /\ flows' = Append(flows, FirstRequest(email))
    /\ UNCHANGED inbox
    /\ UNCHANGED elsewhere


\* the body of the POST to /draft-ai-reply
DraftRequest(platform, details) ==
    [url |-> "draft-ai-reply",
     platform |-> platform,
     userName |-> USER_NAME_FOR_PROMPT,
     sender |-> Get(details, "from"),
     subject |-> Get(details, "subject"),
     body |-> Get(details, "body")]

\* mutant: an error field in a 2xx payload is not looked at
DetailsFailedNoErrorField(resp) ==
    \/ resp.kind = "reject"
    \/ ~resp.ok

\* the details response makes the handler throw (lines 200-209)
DetailsFailed(resp) ==
    \/ resp.kind = "reject"
    \/ ~resp.ok
    \/ Truthy(resp.json, "error")

\* mutant: the HTTP status is left out of the message
DetailsErrorMessageNoStatus(resp) ==
    CASE resp.kind = "reject" -> NetErrMsg
      [] resp.kind = "http" /\ ~resp.ok ->
            S_CouldNotFetch \o Str(Get(resp.json, "error"))
      [] OTHER -> Get(resp.json, "error")

\* error.message of what the details part throws
DetailsErrorMessage(resp) ==
    CASE resp.kind = "reject" -> NetErrMsg
      [] resp.kind = "http" /\ ~resp.ok ->
            S_CouldNotFetch \o resp.status \o S_Dash \o Str(Get(resp.json, "error"))
      [] OTHER -> Get(resp.json, "error")

\* draftResponse.ok && draftData.draft
DraftSucceeded(resp) == resp.kind = "http" /\ resp.ok /\ Truthy(resp.json, "draft")

\* draftData.error || 'Unknown error'
DraftErrorText(resp) ==
    IF Truthy(resp.json, "error") THEN Get(resp.json, "error") ELSE S_UnknownError

\* mutant: the regenerate button is forgotten
EnableControlsSendOnly ==
    /\ sendReplyBtnModal' = Enabled
    /\ UNCHANGED regenerateDraftBtnModal

\* the finally block of the draft-reply and regenerate handlers
EnableControls ==
    /\ sendReplyBtnModal' = Enabled
    /\ regenerateDraftBtnModal' = Enabled

\* mutant: the request stays in flight and is answered again
FinishKeepsRequest(i) == flows

\* the handler of flow i is over
Finish(i) == [flows EXCEPT ![i] = Flow("done", "done", NoReq)]

\* the draft-reply handler resumes after `await fetch(email-details)`
ReplyDetailsResume(i, resp) ==
    /\ flows[i].kind = "reply"
    /\ flows[i].pc = "details"
    /\ resp \in Responses(flows[i].req)
    /\ IF DetailsFailed(resp)
       THEN \* catch, finally
            /\ modalReplyBody' = S_ErrorColon \o DetailsErrorMessage(resp)
            /\ modalStatusMessages' =
                 displayModalStatus(S_ErrDuringDrafting \o DetailsErrorMessage(resp), "danger", TRUE)
            /\ EnableControls
            /\ flows' = Finish(i)
            /\ UNCHANGED <<currentEmailForReply, modalOriginalSender, modalOriginalSubject,
                           modalOriginalBody, modalReplyTo, modalReplySubject>>
       ELSE LET emailDetails == resp.json IN
            /\ currentEmailForReply' = [currentEmailForReply EXCEPT !.fullDetails = emailDetails]
            /\ modalOriginalSender' = escapeHtml(Get(emailDetails, "from"))
            /\ modalOriginalSubject' = escapeHtml(Get(emailDetails, "subject"))
            /\ modalOriginalBody' = escapeHtml(Get(emailDetails, "body"))
            /\ modalReplyTo' = extractEmailAddress(Get(emailDetails, "from"))
            /\ modalReplySubject' = ReplySubject(Get(emailDetails, "subject"))
            /\ flows' = [flows EXCEPT ![i] = Flow("reply", "draft",
                            DraftRequest(currentEmailForReply.platform, emailDetails))]
            /\ UNCHANGED <<modalReplyBody, modalStatusMessages, controls>>
    /\ UNCHANGED <<draftModal, inbox>>
    /\ UNCHANGED elsewhere

\* the draft-reply handler resumes after `await fetch(draft-ai-reply)`
ReplyDraftResume(i, resp) ==
    /\ flows[i].kind = "reply"
    /\ flows[i].pc = "draft"
    /\ resp \in Responses(flows[i].req)
    /\ IF resp.kind = "reject"
       THEN /\ modalReplyBody' = S_ErrorColon \o NetErrMsg
            /\ modalStatusMessages' =
                 displayModalStatus(S_ErrDuringDrafting \o NetErrMsg, "danger", TRUE)
       ELSE IF DraftSucceeded(resp)
       THEN /\ modalReplyBody' = Get(resp.json, "draft")
            /\ modalStatusMessages' = displayModalStatus(S_DraftGenerated, "success", FALSE)
       ELSE /\ modalReplyBody' = S_ErrGenerating \o DraftErrorText(resp)
            /\ modalStatusMessages' =
                 displayModalStatus(S_ErrFromDrafter \o DraftErrorText(resp), "danger", TRUE)
    /\ EnableControls
    /\ flows' = Finish(i)
    /\ UNCHANGED <<currentEmailForReply, modalOriginalSender, modalOriginalSubject,
                   modalOriginalBody, modalReplyTo, modalReplySubject, draftModal, inbox>>
    /\ UNCHANGED elsewhere

\* ------------------------------------------------------------------------
\* "Regenerate" click
\* ------------------------------------------------------------------------
\* mutant: fullDetails is not looked at
HasSelectionOnly == currentEmailForReply # Null

\* currentEmailForReply && currentEmailForReply.fullDetails
HasFullDetails == currentEmailForReply # Null /\ currentEmailForReply.fullDetails # Null

\* a click reaches a button of the modal only when the modal is shown and
\* the button is not disabled
Clickable(button) == draftModal.shown /\ ~button.disabled

\* mutant: the request is built from what the modal displays
RegenerateRequestFromModal ==
    [url |-> "draft-ai-reply",
     platform |-> currentEmailForReply.platform,
     userName |-> USER_NAME_FOR_PROMPT,
     sender |-> modalOriginalSender,
     subject |-> modalOriginalSubject,
     body |-> modalOriginalBody]

\* the request of the regenerate handler, from the cached fullDetails
RegenerateRequest ==
    DraftRequest(currentEmailForReply.platform, currentEmailForReply.fullDetails)

\* mutant: the placeholder is written before the check
RegenerateUnavailableEarly ==
    /\ modalStatusMessages' = displayModalStatus(S_NoOriginal, "warning", TRUE)
    /\ modalReplyBody' = S_RegeneratingBody
    /\ UNCHANGED <<controls, flows>>

\* the else branch of the regenerate handler
RegenerateUnavailable ==
    /\ modalStatusMessages' = displayModalStatus(S_NoOriginal, "warning", TRUE)
    /\ UNCHANGED <<modalReplyBody, controls, flows>>

RegenerateClick ==
    /\ Clickable(regenerateDraftBtnModal)
    /\ IF HasFullDetails
       THEN /\ Len(flows) < FlowLimit
            /\ modalStatusMessages' = displayModalStatus(S_Regenerating, "info", FALSE)
            /\ modalReplyBody' = S_RegeneratingBody
            /\ sendReplyBtnModal' = Disabled
            /\ regenerateDraftBtnModal' = Disabled
            /\ flows' = Append(flows, Flow("regen", "draft", RegenerateRequest))
       ELSE RegenerateUnavailable
    /\ UNCHANGED <<currentEmailForReply, modalOriginalSender, modalOriginalSubject,
                   modalOriginalBody, modalReplyTo, modalReplySubject, draftModal, inbox>>
    /\ UNCHANGED elsewhere

\* the regenerate handler resumes after `await fetch(draft-ai-reply)`
RegenerateResume(i, resp) ==
    /\ flows[i].kind = "regen"
    /\ flows[i].pc = "draft"
    /\ resp \in Responses(flows[i].req)
    /\ IF resp.kind = "reject"
       THEN /\ modalReplyBody' = S_ErrRegenerating \o NetErrMsg
            /\ modalStatusMessages' =
                 displayModalStatus(S_CouldNotConnect \o NetErrMsg, "danger", TRUE)
       ELSE IF DraftSucceeded(resp)
       THEN /\ modalReplyBody' = Get(resp.json, "draft")
            /\ modalStatusMessages' = displayModalStatus(S_DraftRegenerated, "success", FALSE)
       ELSE /\ modalReplyBody' = S_ErrRegenerating \o DraftErrorText(resp)
            /\ modalStatusMessages' =
                 displayModalStatus(S_ErrFromDrafter \o DraftErrorText(resp), "danger", TRUE)
    /\ EnableControls
    /\ flows' = Finish(i)
    /\ UNCHANGED <<currentEmailForReply, modalOriginalSender, modalOriginalSubject,
                   modalOriginalBody, modalReplyTo, modalReplySubject, draftModal, inbox>>
    /\ UNCHANGED elsewhere

\* ------------------------------------------------------------------------
\* "Send" click
\* ------------------------------------------------------------------------
\* mutant: the subject is not validated
MissingFieldNoSubject ==
    \/ trim(modalReplyTo) = <<>>
    \/ trim(modalReplyBody) = <<>>

\* !to || !subject || !body, on the trimmed values
MissingField ==
    \/ trim(modalReplyTo) = <<>>
    \/ trim(modalReplySubject) = <<>>
    \/ trim(modalReplyBody) = <<>>

SendClick ==
    /\ Clickable(sendReplyBtnModal)
    /\ IF ~HasFullDetails
       THEN /\ modalStatusMessages' = displayModalStatus(S_NoContext, "danger", TRUE)
            /\ UNCHANGED <<controls, flows>>
       ELSE IF MissingField
       THEN /\ modalStatusMessages' = displayModalStatus(S_Required, "warning", TRUE)
            /\ UNCHANGED <<controls, flows>>
       ELSE /\ Len(flows) < FlowLimit
            /\ modalStatusMessages' = displayModalStatus(S_Sending, "info", FALSE)
            /\ sendReplyBtnModal' = Disabled
            /\ regenerateDraftBtnModal' = Disabled
            /\ flows' = Append(flows, Flow("send", "send",
                            [url |-> "send-platform-reply",
                             platform |-> currentEmailForReply.platform,
                             originalMessageId |-> currentEmailForReply.id,
                             originalThreadId |-> currentEmailForReply.threadId,
                             to |-> trim(modalReplyTo),
                             subject |-> trim(modalReplySubject),
                             body |-> trim(modalReplyBody),
                             inReplyToHeader |-> Get(currentEmailForReply.fullDetails, "in_reply_to_header"),
                             referencesHeader |-> Get(currentEmailForReply.fullDetails, "references_header")]))
    /\ UNCHANGED <<currentEmailForReply, fields, draftModal, inbox>>
    /\ UNCHANGED elsewhere

\* mutant: the status field of the answer is not looked at
SendSucceededAnyStatus(resp) == resp.kind = "http" /\ resp.ok

\* response.ok && result.status === 'success'
SendSucceeded(resp) ==
    resp.kind = "http" /\ resp.ok /\ Get(resp.json, "status") = S_Success

\* mutant: the message of the answer is not looked at
SendMessageFallbackOnly(resp, fallback) == fallback

\* result.message || <fallback>
SendMessage(resp, fallback) ==
    IF Truthy(resp.json, "message") THEN Get(resp.json, "message") ELSE fallback

\* the send handler resumes after `await fetch(send-platform-reply)`
SendResume(i, resp) ==
    /\ flows[i].kind = "send"
    /\ flows[i].pc = "send"
    /\ resp \in Responses(flows[i].req)
    /\ IF resp.kind = "reject"
       THEN /\ modalStatusMessages' =
                 displayModalStatus(S_FailedSend \o NetErrMsg, "danger", TRUE)
            /\ EnableControls
            /\ UNCHANGED <<draftModal, inbox>>
       ELSE IF SendSucceeded(resp)
       THEN /\ modalStatusMessages' =
                 displayModalStatus(S_SentVia \o currentEmailForReply.platform \o S_Bang
                                      \o SendMessage(resp, <<>>), "success", FALSE)
            /\ draftModal' = [draftModal EXCEPT !.hideTimers = @ + 1]
            /\ fetchAndDisplayEmails
            /\ UNCHANGED controls
       ELSE /\ modalStatusMessages' =
                 displayModalStatus(S_ErrSending \o SendMessage(resp, S_UnknownServer), "danger", TRUE)
            /\ EnableControls
            /\ UNCHANGED <<draftModal, inbox>>
    /\ flows' = Finish(i)
    /\ UNCHANGED <<currentEmailForReply, fields>>
    /\ UNCHANGED elsewhere

\* ------------------------------------------------------------------------
\* Timers and the user
\* ------------------------------------------------------------------------
\* setTimeout(() => draftModal.modal('hide'), 3000) fires
HideTimerFires ==
    /\ draftModal.hideTimers > 0
    /\ draftModal' = [shown |-> FALSE, hideTimers |-> draftModal.hideTimers - 1]
    /\ UNCHANGED <<currentEmailForReply, fields, controls, modalStatusMessages, flows, inbox>>
    /\ UNCHANGED elsewhere

\* the 7 s timer of displayModalStatus closes the alert it belongs to
AlertTimerFires ==
    /\ modalStatusMessages # NoStatus
    /\ modalStatusMessages.autoClose
    /\ modalStatusMessages' = NoStatus
    /\ UNCHANGED <<currentEmailForReply, fields, controls, draftModal, flows, inbox>>
    /\ UNCHANGED elsewhere

\* the user dismisses the modal
UserHidesModal ==
    /\ draftModal.shown
    /\ draftModal' = [draftModal EXCEPT !.shown = FALSE]
    /\ UNCHANGED <<currentEmailForReply, fields, controls, modalStatusMessages, flows, inbox>>
    /\ UNCHANGED elsewhere

\* what the user types into a reply field
UserTexts == { <<" ">> }

\* the user edits one of the reply fields
UserEdits(field, text) ==
    /\ draftModal.shown
    /\ modalReplyTo' = IF field = "to" THEN text ELSE modalReplyTo
    /\ modalReplySubject' = IF field = "subject" THEN text ELSE modalReplySubject
    /\ modalReplyBody' = IF field = "body" THEN text ELSE modalReplyBody
    /\ UNCHANGED <<currentEmailForReply, modalOriginalSender, modalOriginalSubject,
                   modalOriginalBody, controls, modalStatusMessages, draftModal, flows, inbox>>
    /\ UNCHANGED elsewhere

\* The reply workflow.  The refresh button is left to NextInbox: it writes
\* emailListEl and inboxInFlight only, which the reply workflow reads in the
\* guard of DraftReplyClick and nowhere else.
Next ==
    \/ \E r \in Responses([url |-> "emails"]) : InboxResolve(r)
    \/ \E e \in Emails : DraftReplyClick(e)
    \/ \E i \in DOMAIN flows : \E r \in Responses(flows[i].req) : ReplyDetailsResume(i, r)
    \/ \E i \in DOMAIN flows : \E r \in Responses(flows[i].req) : ReplyDraftResume(i, r)
    \/ RegenerateClick
    \/ \E i \in DOMAIN flows : \E r \in Responses(flows[i].req) : RegenerateResume(i, r)
    \/ SendClick
    \/ \E i \in DOMAIN flows : \E r \in Responses(flows[i].req) : SendResume(i, r)
    \/ HideTimerFires
    \/ AlertTimerFires
    \/ UserHidesModal
    \/ \E f \in {"to", "subject", "body"} : \E t \in UserTexts : UserEdits(f, t)

Spec == Init /\ [][Next]_vars

\* The reply workflow together with the refresh button
NextInbox == Next \/ RefreshClick

SpecInbox == Init /\ [][NextInbox]_vars

\* a text without blanks that the user types into a reply field
TypedText == <<"x">>

\* The reply workflow from the click to the send, with a user who fills in
\* the reply fields
NextTyped ==
    \/ \E r \in Responses([url |-> "emails"]) : InboxResolve(r)
    \/ \E e \in Emails : DraftReplyClick(e)
    \/ \E i \in DOMAIN flows : \E r \in Responses(flows[i].req) : ReplyDetailsResume(i, r)
    \/ \E i \in DOMAIN flows : \E r \in Responses(flows[i].req) : ReplyDraftResume(i, r)
    \/ SendClick
    \/ \E i \in DOMAIN flows : \E r \in Responses(flows[i].req) : SendResume(i, r)
    \/ \E f \in {"to", "subject", "body"} : UserEdits(f, TypedText)

SpecTyped == Init /\ [][NextTyped]_vars

\* the page of script.js, with the user at the reply workflow and the
\* delayed close of the modal
InitClose == Constructed("close") /\ arg = Null

\* The reply workflow from the click to the close of the modal
NextClose ==
    \/ \E r \in Responses([url |-> "emails"]) : InboxResolve(r)
    \/ \E e \in Emails : DraftReplyClick(e)
    \/ \E i \in DOMAIN flows : \E r \in Responses(flows[i].req) : ReplyDetailsResume(i, r)
    \/ \E i \in DOMAIN flows : \E r \in Responses(flows[i].req) : ReplyDraftResume(i, r)
    \/ SendClick
    \/ \E i \in DOMAIN flows : \E r \in Responses(flows[i].req) : SendResume(i, r)
    \/ HideTimerFires
    \/ UserHidesModal

SpecClose == InitClose /\ [][NextClose]_vars

\* ------------------------------------------------------------------------
\* Connection status and inbox (script.js, outside the reply workflow)
\* ------------------------------------------------------------------------
\* what checkAuthStatus and the connect handler never touch
beyondAuth == <<currentEmailForReply, fields, controls, modalStatusMessages,
                draftModal, flows, emailListEl, inboxInFlight, chat, kb, render, scope>>

\* status.gmail, status.outlook: the field is there and true
IsTrue(json, field) == field \in DOMAIN json /\ json[field] = TRUE

\* await response.text() of an error answer
bodyText(json) == S_JsonErrOpen \o Str(Get(json, "error")) \o S_JsonErrClose

\* the catch block of checkAuthStatus (lines 83-90)
AuthCheckFailed(message) ==
    /\ gmailAuthStatusEl' = S_GmailError
    /\ outlookAuthStatusEl' = S_OutlookError
    /\ statusMessagesGlobalDiv' =
          displayGlobalStatus(S_FailedAuthCheck \o message \o S_EnsureBackend, "danger", TRUE)
    /\ UNCHANGED connectGmailBtn

\* checkAuthStatus resumes after `await fetch(auth-status)`
AuthResume(i, resp) ==
    /\ scope = "mail"
    /\ pending[i].url = "auth-status"
    /\ resp \in Responses(pending[i])
    /\ IF resp.kind = "reject"
       THEN AuthCheckFailed(NetErrMsg)
       ELSE IF ~resp.ok
       THEN AuthCheckFailed(S_AuthFailed \o resp.status \o S_Dash \o bodyText(resp.json))
       ELSE /\ gmailAuthStatusEl' =
                 IF IsTrue(resp.json, "gmail") THEN S_GmailConnected ELSE S_GmailNotConnected
            /\ connectGmailBtn' =
                 [connectGmailBtn EXCEPT !.display =
                     IF IsTrue(resp.json, "gmail") THEN "none" ELSE "inline-block"]
            /\ outlookAuthStatusEl' =
                 IF IsTrue(resp.json, "outlook") THEN S_OutlookConnected ELSE S_OutlookNotConnected
            /\ UNCHANGED statusMessagesGlobalDiv
    /\ pending' = Remove(pending, i)
    /\ UNCHANGED <<authTimers, beyondAuth>>

\* a click on the 'connect Gmail' button
ConnectGmailClick ==
    /\ scope = "mail"
    /\ ~connectGmailBtn.disabled
    /\ connectGmailBtn.display # "none"
    /\ Len(pending) + authTimers < MaxPending
    /\ statusMessagesGlobalDiv' = displayGlobalStatus(S_Attempting, "info", TRUE)
    /\ connectGmailBtn' = [connectGmailBtn EXCEPT !.disabled = TRUE]
    /\ pending' = Append(pending, [url |-> "initiate-gmail-auth"])
    /\ UNCHANGED <<gmailAuthStatusEl, outlookAuthStatusEl, authTimers, beyondAuth>>

\* response.ok && data.status === 'success'
GmailConnected(resp) ==
    resp.kind = "http" /\ resp.ok /\ Get(resp.json, "status") = S_Success

\* the connect handler resumes after `await fetch(initiate-gmail-auth)`
ConnectGmailResume(i, resp) ==
    /\ scope = "mail"
    /\ pending[i].url = "initiate-gmail-auth"
    /\ resp \in Responses(pending[i])
    /\ statusMessagesGlobalDiv' =
          IF resp.kind = "reject"
          THEN displayGlobalStatus(S_ErrInitGmail \o NetErrMsg, "danger", TRUE)
          ELSE IF GmailConnected(resp)
          THEN displayGlobalStatus(Str(Get(resp.json, "message")) \o S_WillRefresh, "success", TRUE)
          ELSE displayGlobalStatus(
                  S_GmailFailed \o Or(Get(resp.json, "message"),
                                      Or(Get(resp.json, "error"), S_UnknownServer)),
                  "danger", TRUE)
    /\ connectGmailBtn' = [connectGmailBtn EXCEPT !.disabled = FALSE]
    /\ authTimers' = authTimers + 1
    /\ pending' = Remove(pending, i)
    /\ UNCHANGED <<gmailAuthStatusEl, outlookAuthStatusEl, beyondAuth>>

\* setTimeout(checkAuthStatus, 3000) fires
AuthTimerFires ==
    /\ scope = "mail"
    /\ authTimers > 0
    /\ authTimers' = authTimers - 1
    /\ pending' = Append(pending, [url |-> "auth-status"])
    /\ UNCHANGED <<gmailAuthStatusEl, outlookAuthStatusEl, connectGmailBtn,
                   statusMessagesGlobalDiv, beyondAuth>>

\* the 7 s timer of displayGlobalStatus closes the alert it belongs to
GlobalAlertTimerFires ==
    /\ scope = "mail"
    /\ statusMessagesGlobalDiv # NoStatus
    /\ statusMessagesGlobalDiv.autoClose
    /\ statusMessagesGlobalDiv' = NoStatus
    /\ UNCHANGED <<gmailAuthStatusEl, outlookAuthStatusEl, connectGmailBtn, authTimers,
                   pending, beyondAuth>>

\* the page of script.js, with the user at the connection status and the
\* inbox list
InitMail == Constructed("mail") /\ arg = Null

NextMail ==
    \/ \E i \in DOMAIN pending : \E r \in Responses(pending[i]) : AuthResume(i, r)
    \/ ConnectGmailClick
    \/ \E i \in DOMAIN pending : \E r \in Responses(pending[i]) : ConnectGmailResume(i, r)
    \/ AuthTimerFires
    \/ GlobalAlertTimerFires
    \/ RefreshClick
    \/ \E r \in Responses([url |-> "emails"]) : InboxResolve(r)

SpecMail == InitMail /\ [][NextMail]_vars

\* ------------------------------------------------------------------------
\* The knowledge base (chat_script.js)
\* ------------------------------------------------------------------------
\* displayKbStatus
displayKbStatus(message, type) == [type |-> type, message |-> message]

\* what the knowledge-base handlers never touch
beyondKb == <<currentEmailForReply, fields, controls, modalStatusMessages,
              draftModal, flows, inbox, auth, chat, render, scope>>

\* data.documents && data.documents.length > 0
HasDocuments(json) == "documents" \in DOMAIN json /\ Len(json.documents) > 0

\* mutant: an error answer is only logged
DocsNotListedSilently(resp) == UNCHANGED <<kbStatusDiv, indexedDocsListEl>>

\* fetchAndDisplayIndexedDocs on a rejected fetch or an error status
\* (lines 41-45 and 72-75)
DocsNotListed(resp) ==
    /\ kbStatusDiv' =
          IF resp.kind = "reject"
          THEN displayKbStatus(S_ErrFetchingDocs \o NetErrMsg, "error")
          ELSE displayKbStatus(S_ErrListing \o Str(Get(resp.json, "error")), "error")
    /\ UNCHANGED indexedDocsListEl

\* fetchAndDisplayIndexedDocs resumes after its await
DocsResume(i, resp) ==
    /\ scope = "kb"
    /\ pending[i].url = "list-indexed-documents"
    /\ resp \in Responses(pending[i])
    /\ IF resp.kind = "reject" \/ ~resp.ok
       THEN DocsNotListed(resp)
       ELSE IF HasDocuments(resp.json)
       THEN /\ indexedDocsListEl' = "documents"
            /\ kbStatusDiv' =
                 displayKbStatus(S_KbLoadedWith \o <<ToString(Len(resp.json.documents))>>
                                   \o S_UniqueDocs, "ok")
       ELSE IF Truthy(resp.json, "error")
       THEN /\ indexedDocsListEl' = "not loaded"
            /\ kbStatusDiv' = displayKbStatus(Get(resp.json, "error"), "error")
       ELSE /\ indexedDocsListEl' = "empty"
            /\ kbStatusDiv' = displayKbStatus(S_KbEmpty, "info")
    /\ pending' = Remove(pending, i)
    /\ UNCHANGED <<updateKbBtn, connectMsGraphBtn, beyondKb>>

\* mutant: the connect button is left enabled
UpdateKbClickUpdateOnly ==
    /\ scope = "kb"
    /\ ~updateKbBtn.disabled
    /\ Len(pending) < MaxPending
    /\ kbStatusDiv' = displayKbStatus(S_Updating, "processing")
    /\ updateKbBtn' = Disabled
    /\ pending' = Append(pending, [url |-> "update-knowledgebase", by |-> "updateKbBtn"])
    /\ UNCHANGED <<indexedDocsListEl, connectMsGraphBtn, beyondKb>>

\* a click on the 'update knowledge base' button
UpdateKbClick ==
    /\ scope = "kb"
    /\ ~updateKbBtn.disabled
    /\ Len(pending) < MaxPending
    /\ kbStatusDiv' = displayKbStatus(S_Updating, "processing")
    /\ updateKbBtn' = Disabled
    /\ connectMsGraphBtn' = Disabled
    /\ pending' = Append(pending, [url |-> "update-knowledgebase", by |-> "updateKbBtn"])
    /\ UNCHANGED <<indexedDocsListEl, beyondKb>>

\* the update handler resumes after `await fetch(update-knowledgebase)`
UpdateKbResume(i, resp) ==
    /\ scope = "kb"
    /\ pending[i].url = "update-knowledgebase"
    /\ pending[i].by = "updateKbBtn"
    /\ resp \in Responses(pending[i])
    /\ IF resp.kind = "reject"
       THEN /\ kbStatusDiv' = displayKbStatus(S_FailedUpdate \o NetErrMsg, "error")
            /\ pending' = Remove(pending, i)
       ELSE IF resp.ok
       THEN /\ kbStatusDiv' =
                 displayKbStatus(Or(Get(resp.json, "message"), S_UpdateCompleted), "ok")
            /\ pending' = Append(Remove(pending, i), [url |-> "list-indexed-documents"])
       ELSE /\ kbStatusDiv' =
                 displayKbStatus(S_ErrUpdating \o Or(Get(resp.json, "error"), S_UnknownError),
                                 "error")
            /\ pending' = Remove(pending, i)
    /\ updateKbBtn' = Enabled
    /\ connectMsGraphBtn' = Enabled
    /\ UNCHANGED <<indexedDocsListEl, beyondKb>>

\* a click on the 'connect Microsoft Graph' button
ConnectMsGraphClick ==
    /\ scope = "kb"
    /\ ~connectMsGraphBtn.disabled
    /\ Len(pending) < MaxPending
    /\ kbStatusDiv' = displayKbStatus(S_AttemptingMs, "info")
    /\ pending' = Append(pending, [url |-> "update-knowledgebase", by |-> "connectMsGraphBtn"])
    /\ UNCHANGED <<indexedDocsListEl, updateKbBtn, connectMsGraphBtn, beyondKb>>

\* the connect handler resumes after `await fetch(update-knowledgebase)`
ConnectMsGraphResume(i, resp) ==
    /\ scope = "kb"
    /\ pending[i].url = "update-knowledgebase"
    /\ pending[i].by = "connectMsGraphBtn"
    /\ resp \in Responses(pending[i])
    /\ IF resp.kind = "reject"
       THEN /\ kbStatusDiv' = displayKbStatus(S_ErrMs \o NetErrMsg, "error")
            /\ pending' = Remove(pending, i)
       ELSE IF resp.status = <<"4","0","1">>
       THEN /\ kbStatusDiv' = displayKbStatus(S_MsAuthRequired, "warning")
            /\ pending' = Remove(pending, i)
       ELSE IF resp.ok
       THEN /\ kbStatusDiv' =
                 displayKbStatus(Or(Get(resp.json, "message"), S_UpdateStarted), "ok")
            /\ pending' = Append(Remove(pending, i), [url |-> "list-indexed-documents"])
       ELSE \* result.error || response.statusText: every error answer of
            \* Responses carries an error field
            /\ kbStatusDiv' =
                 displayKbStatus(S_MsAuthCheck \o Str(Get(resp.json, "error")), "warning")
            /\ pending' = Remove(pending, i)
    /\ UNCHANGED <<indexedDocsListEl, updateKbBtn, connectMsGraphBtn, beyondKb>>

\* the page of chat_script.js, with the user at the knowledge base
InitKb == Constructed("kb") /\ arg = Null

NextKb ==
    \/ \E i \in DOMAIN pending : \E r \in Responses(pending[i]) : DocsResume(i, r)
    \/ UpdateKbClick
    \/ \E i \in DOMAIN pending : \E r \in Responses(pending[i]) : UpdateKbResume(i, r)
    \/ ConnectMsGraphClick
    \/ \E i \in DOMAIN pending : \E r \in Responses(pending[i]) : ConnectMsGraphResume(i, r)

SpecKb == InitKb /\ [][NextKb]_vars

\* ------------------------------------------------------------------------
\* The chat (chat_script.js)
\* ------------------------------------------------------------------------
\* the length chatHistory is trimmed to (line 157)
HistoryLimit == 20

\* .replace(/\n/g, '<br>')
RECURSIVE replaceNewlines(_)
replaceNewlines(str) ==
    IF str = <<>> THEN <<>>
    ELSE (IF Head(str) = "\n" THEN S_Br ELSE <<Head(str)>>) \o replaceNewlines(Tail(str))

\* the <li> elements of the sources of a message (lines 26-28)
RECURSIVE sourcesHtml(_)
sourcesHtml(sources) ==
    IF sources = <<>> THEN <<>>
    ELSE LET source == Head(sources) IN
         S_Li \o escapeHtml(Get(source, "name")) \o S_Space
              \o (IF Truthy(source, "webUrl")
                  THEN S_LinkOpen \o Get(source, "webUrl") \o S_LinkClose
                  ELSE <<>>)
              \o S_LiEnd \o sourcesHtml(Tail(sources))

\* messageDiv.innerHTML of addMessageToChat; an absent sources argument is
\* the default [], and `sources && sources.length > 0` is false for it
messageHtml(message, sources) ==
    S_MessageContent \o replaceNewlines(escapeHtml(message)) \o S_DivEnd
        \o (IF sources # <<>>
            THEN S_SourcesOpen \o sourcesHtml(sources) \o S_SourcesClose
            ELSE <<>>)

\* addMessageToChat: the message becomes the last child of the chat display
addMessageToChat(sender, message, sources) ==
    [sender |-> sender, innerHTML |-> messageHtml(message, sources)]

\* chat requests in flight
ChatInFlight == { i \in DOMAIN pending : pending[i].url = "chat-with-sp-docs" }

\* mutant: the query is not tested for being empty
handleUserMessageUntested ==
    LET query == trim(userInput) IN
    /\ Cardinality(ChatInFlight) < MaxChat
    /\ chatMessagesDiv' = addMessageToChat("user", query, <<>>)
    /\ userInput' = <<>>
    /\ sendBtn' = Disabled
    /\ pending' = Append(pending, [url |-> "chat-with-sp-docs", query |-> query])
    /\ UNCHANGED chatHistory

\* handleUserMessage up to its await.  Of the body of the request the
\* query is kept; the history string sent with it is a rendering of
\* chatHistory that the page never reads again.
handleUserMessage ==
    LET query == trim(userInput) IN
    IF query = <<>>
    THEN UNCHANGED <<chat, pending>>
    ELSE /\ Cardinality(ChatInFlight) < MaxChat
         /\ chatMessagesDiv' = addMessageToChat("user", query, <<>>)
         /\ userInput' = <<>>
         /\ sendBtn' = Disabled
         /\ pending' = Append(pending, [url |-> "chat-with-sp-docs", query |-> query])
         /\ UNCHANGED chatHistory

\* what the chat handlers never touch
beyondChat == <<currentEmailForReply, fields, controls, modalStatusMessages,
                draftModal, flows, inbox, auth, kb, render, scope>>

\* a click on the send button of the chat
SendBtnClick ==
    /\ scope = "chat"
    /\ ~sendBtn.disabled
    /\ handleUserMessage
    /\ UNCHANGED beyondChat

\* the Enter key in the input field: the listener does not look at sendBtn
EnterKey ==
    /\ scope = "chat"
    /\ handleUserMessage
    /\ UNCHANGED beyondChat

\* what the user types into the chat input
ChatTexts == { <<"a">>, <<"b">>, <<" ">> }

\* how many times the question is typed, in flight or in chatHistory
Occurrences(question) ==
    (IF userInput = question THEN 1 ELSE 0)
    + Cardinality({ i \in ChatInFlight : pending[i].query = question })
    + Cardinality({ i \in DOMAIN chatHistory :
                      chatHistory[i] = [role |-> "user", content |-> question] })

UserTypes(text) ==
    /\ scope = "chat"
    /\ text = <<"b">> => Occurrences(text) < MaxOther
    /\ userInput' = text
    /\ UNCHANGED <<sendBtn, chatHistory, chatMessagesDiv, pending, beyondChat>>

\* mutant: the oldest entries are kept
trimHistoryKeepOldest(history) ==
    IF Len(history) > HistoryLimit THEN SubSeq(history, 1, HistoryLimit) ELSE history

\* if(chatHistory.length > 20) chatHistory.splice(0, chatHistory.length - 20)
trimHistory(history) ==
    IF Len(history) > HistoryLimit
    THEN SubSeq(history, Len(history) - HistoryLimit + 1, Len(history))
    ELSE history

\* mutant: the response field of the answer is not looked at
ChatSucceededAnyAnswer(resp) == resp.kind = "http" /\ resp.ok

\* response.ok && data.response
ChatSucceeded(resp) == resp.kind = "http" /\ resp.ok /\ Truthy(resp.json, "response")

\* handleUserMessage resumes after `await fetch(chat-with-sp-docs)`
ChatResume(i, resp) ==
    /\ scope = "chat"
    /\ pending[i].url = "chat-with-sp-docs"
    /\ pending' = Remove(pending, i)
    /\ sendBtn' = Enabled
    /\ resp \in Responses(pending[i])
    /\ IF resp.kind = "reject"
       THEN /\ chatMessagesDiv' = addMessageToChat("ai", S_ChatError \o NetErrMsg, <<>>)
            /\ UNCHANGED chatHistory
       ELSE IF ChatSucceeded(resp)
       THEN /\ chatMessagesDiv' =
                 addMessageToChat("ai", Get(resp.json, "response"),
                    IF "sources" \in DOMAIN resp.json THEN resp.json.sources ELSE <<>>)
            /\ chatHistory' = trimHistory(chatHistory \o
                    << [role |-> "user", content |-> pending[i].query],
                       [role |-> "ai", content |-> Get(resp.json, "response")] >>)
       ELSE /\ chatMessagesDiv' =
                 addMessageToChat("ai", S_ChatError \o
                    (IF Truthy(resp.json, "error") THEN Get(resp.json, "error") ELSE S_NoResponse), <<>>)
            /\ UNCHANGED chatHistory
    /\ UNCHANGED <<userInput, beyondChat>>

\* the page of chat_script.js, with the user at the chat
InitChat == Constructed("chat") /\ arg = Null

NextChat ==
    \/ \E t \in ChatTexts : UserTypes(t)
    \/ SendBtnClick
    \/ EnterKey
    \/ \E i \in DOMAIN pending : \E r \in Responses(pending[i]) : ChatResume(i, r)

SpecChat == InitChat /\ [][NextChat]_vars

\* ------------------------------------------------------------------------
\* Both pages
\* ------------------------------------------------------------------------
\* the parts of the two pages a behaviour follows
Sites == {"reply", "mail", "chat", "kb"}

InitSites == \E part \in Sites : Constructed(part) /\ arg = Null

NextSites ==
    \/ scope = "reply" /\ Next
    \/ scope = "mail" /\ NextMail
    \/ scope = "chat" /\ NextChat
    \/ scope = "kb" /\ NextKb

SpecSites == InitSites /\ [][NextSites]_vars

\* ------------------------------------------------------------------------
\* What is written to innerHTML, for backend strings with special characters
\* ------------------------------------------------------------------------
\* platformBadge (lines 129-131)
platformBadge(email) ==
    S_BadgeOpen \o (IF Get(email, "platform") = S_Gmail THEN S_BadgeDanger ELSE S_BadgeInfo)
        \o S_BadgeMid
        \o (IF Get(email, "platform") = S_Gmail THEN S_PlatformGmail ELSE S_PlatformOutlook)
        \o S_SpanEnd

\* dateStr (lines 133-142): new Date(..).toLocaleString() does not throw; of
\* the dates here none parses
dateStr(email) == IF Truthy(email, "date") THEN S_InvalidDate ELSE S_NA

\* listItem.innerHTML (lines 146-161), the layout whitespace left out
emailItemHtml(email) ==
    S_ItemOpen \o platformBadge(email) \o escapeHtml(Or(Get(email, "subject"), S_NoSubject))
        \o S_ItemTitle \o escapeHtml(Get(email, "date")) \o S_TagEnd \o dateStr(email)
        \o S_ItemFrom \o escapeHtml(Or(Get(email, "from"), S_NA))
        \o S_ItemSnippet \o escapeHtml(Or(Get(email, "snippet"), <<>>))
        \o S_ItemButton \o Str(Get(email, "platform"))
        \o S_DataId \o Str(Get(email, "id"))
        \o S_DataThreadId \o Or(Get(email, "threadId"), <<>>)
        \o S_DataMessageId \o escapeHtml(Or(Get(email, "message_id_header"), <<>>))
        \o S_DataReferences \o escapeHtml(Or(Get(email, "references_header"), <<>>))
        \o S_DataInReplyTo \o escapeHtml(Or(Get(email, "in_reply_to_header"), <<>>))
        \o S_ItemClose

\* emailListEl.innerHTML of the catch block (line 167)
inboxErrorHtml(resp) == S_ErrItemOpen \o InboxErrorMessage(resp) \o S_LiEnd

\* the HTML string an innerHTML write produces for a backend payload
Rendered(payload) ==
    CASE payload.site = "emailItem" -> emailItemHtml(payload.email)
      [] payload.site = "inboxError" -> inboxErrorHtml(payload.resp)
      [] payload.site = "chatMessage" -> messageHtml(payload.message, payload.sources)

\* strings with the characters escapeHtml is there for
Probes == { <<"<">>, <<">">>, <<"\"">>, <<"'">>, <<"&">>, <<>> }

\* an email of the inbox list
PlainEmail ==
    [platform |-> S_Gmail, id |-> <<"x">>, threadId |-> <<"x">>, subject |-> <<"x">>,
     from |-> <<"x">>, date |-> <<"x">>, snippet |-> <<"x">>,
     message_id_header |-> <<"x">>, references_header |-> <<"x">>,
     in_reply_to_header |-> <<"x">>]

\* an AI answer with one source
PlainAnswer == [message |-> <<"x">>, name |-> <<"x">>, webUrl |-> <<"x">>]

\* backend payloads in which one string is a probe
RenderPayloads ==
    { [site |-> "emailItem", email |-> [PlainEmail EXCEPT ![f] = v]] :
          f \in DOMAIN PlainEmail, v \in Probes }
    \cup { [site |-> "inboxError", resp |-> HttpResp(FALSE, Status500, [error |-> v])] :
              v \in Probes }
    \cup { [site |-> "inboxError", resp |-> Rejected] }
    \cup { LET a == [PlainAnswer EXCEPT ![f] = v] IN
           [site |-> "chatMessage", message |-> a.message,
            sources |-> << [name |-> a.name, webUrl |-> a.webUrl] >>] :
              f \in DOMAIN PlainAnswer, v \in Probes }

\* a backend payload is about to be rendered
InitRender == Constructed("render") /\ arg \in RenderPayloads

\* what a rendering step leaves alone
beyondRender == <<currentEmailForReply, fields, controls, modalStatusMessages,
                  draftModal, flows, inbox, auth, chat, kb, pending, arg, scope>>

\* listItem.innerHTML = ... for the email arg.email
RenderEmailItem ==
    /\ scope = "render"
    /\ arg.site = "emailItem"
    /\ innerHTML = Null
    /\ innerHTML' = emailItemHtml(arg.email)
    /\ UNCHANGED beyondRender

\* emailListEl.innerHTML = ... in the catch block of fetchAndDisplayEmails
RenderInboxError ==
    /\ scope = "render"
    /\ arg.site = "inboxError"
    /\ innerHTML = Null
    /\ innerHTML' = inboxErrorHtml(arg.resp)
    /\ UNCHANGED beyondRender

\* messageDiv.innerHTML = messageHtml in addMessageToChat
RenderChatMessage ==
    /\ scope = "render"
    /\ arg.site = "chatMessage"
    /\ innerHTML = Null
    /\ innerHTML' = messageHtml(arg.message, arg.sources)
    /\ UNCHANGED beyondRender

NextRender ==
    \/ RenderEmailItem
    \/ RenderInboxError
    \/ RenderChatMessage

SpecRender == InitRender /\ [][NextRender]_vars

\* ------------------------------------------------------------------------
\* The reply subject, for every subject
\* ------------------------------------------------------------------------
\* the strings of at most n characters of chars
Strings(chars, n) == UNION { [1..k -> chars] : k \in 0..n }

\* details payloads: with a subject of at most MaxSubjectLen characters, and
\* without a subject
SubjectPayloads ==
    { [subject |-> sub] : sub \in Strings({"R", "r", "E", "e", ":", "x"}, MaxSubjectLen) }
        \cup { [from |-> <<"b","o","b">>] }

\* the details payload emailDetails has arrived
InitSubject == Constructed("subject") /\ arg \in SubjectPayloads

\* line 218: modalReplySubject.value = ..., with arg as emailDetails
PrefillReplySubject ==
    /\ scope = "subject"
    /\ modalReplySubject = <<>>
    /\ modalReplySubject' = ReplySubject(Get(arg, "subject"))
    /\ UNCHANGED <<currentEmailForReply, modalOriginalSender, modalOriginalSubject,
                   modalOriginalBody, modalReplyTo, modalReplyBody, controls,
                   modalStatusMessages, draftModal, flows, inbox, elsewhere>>

NextSubject == PrefillReplySubject

SpecSubject == InitSubject /\ [][NextSubject]_vars

\* ------------------------------------------------------------------------
\* Properties
\* ------------------------------------------------------------------------
\* currentEmailForReply.fullDetails, Null when there is no selected email
FullDetails(c) == IF c = Null THEN Null ELSE c.fullDetails

\* flow i has a request in flight
InFlight(i) == i \in DOMAIN flows /\ flows[i].pc # "done"

\* C6: a 'regenerate' click while fullDetails is absent issues no network
\* call, changes no modal field and no control state, and shows a warning
C6_RegenerateWithoutDetails ==
    [][(FullDetails(currentEmailForReply) = Null /\ RegenerateClick)
         => /\ flows' = flows
            /\ inboxInFlight' = inboxInFlight
            /\ UNCHANGED <<fields, controls>>
            /\ modalStatusMessages'.type = "warning"]_vars

\* the regenerate handler has just refused to run for lack of fullDetails
C6_Witness ==
    /\ modalStatusMessages # NoStatus
    /\ modalStatusMessages.message = S_NoOriginal
    /\ currentEmailForReply.fullDetails = Null

\* every handler that reached an await has finished
AllResolved == \A i \in DOMAIN flows : flows[i].pc = "done"

\* the drafts the AI writes for the emails other than the one with this id
ForeignDrafts(id) ==
    { DraftFor(DraftRequest(e.platform, DetailsOf(e.id))) : e \in {m \in Emails : m.id # id} }

\* C1: after two 'draft reply' clicks on different emails, once all requests
\* have resolved, the modal fields derive from the responses for the email
\* clicked last only, whatever the order the responses arrived in
C1_ModalReflectsLatestClick ==
    (AllResolved /\ currentEmailForReply # Null) =>
        LET d == DetailsOf(currentEmailForReply.id) IN
        /\ modalOriginalSender \in {S_Loading, escapeHtml(d.from)}
        /\ modalOriginalSubject \in {S_Loading, escapeHtml(d.subject)}
        /\ modalOriginalBody \in {S_Loading, escapeHtml(d.body)}
        /\ modalReplyTo \in {<<>>, extractEmailAddress(d.from)} \cup UserTexts
        /\ modalReplySubject \in {<<>>, ReplySubject(d.subject)} \cup UserTexts
        /\ modalReplyBody \notin ForeignDrafts(currentEmailForReply.id)

\* flow i is at its draft request after the click on a 'draft reply' button
AtInitialDraft(fs, i) == i \in DOMAIN fs /\ fs[i].kind = "reply" /\ fs[i].pc = "draft"

\* C2: within one flow a draft request is issued only when that flow's
\* details request has resolved successfully: a flow reaches its draft
\* request only from its own details request, in the step that stores the
\* successful payload of that request and builds the draft request from it
C2_DraftOnlyAfterDetails ==
    [][\A i \in DOMAIN flows' :
          (AtInitialDraft(flows', i) /\ ~AtInitialDraft(flows, i)) =>
             /\ i \in DOMAIN flows
             /\ flows[i].kind = "reply"
             /\ flows[i].pc = "details"
             /\ FullDetails(currentEmailForReply') = DetailsOf(flows[i].req.id)
             /\ flows'[i].req.sender = DetailsOf(flows[i].req.id).from
             /\ flows'[i].req.subject = DetailsOf(flows[i].req.id).subject
             /\ flows'[i].req.body = DetailsOf(flows[i].req.id).body]_vars

\* a flow is at its draft request
C2_Witness == \E i \in DOMAIN flows : AtInitialDraft(flows, i)

\* a request of flow i is issued in this step
Issues(i) ==
    /\ i \in DOMAIN flows'
    /\ flows'[i].pc # "done"
    /\ (i \notin DOMAIN flows \/ flows[i] # flows'[i])

\* C3: a 'draft reply' click replaces currentEmailForReply wholesale, with
\* fullDetails null; fullDetails becomes non-null only when a details request
\* for the currently selected email resolves successfully; and no draft,
\* regenerate or send request is issued while fullDetails is null
C3_FullDetailsLifecycle ==
    [][/\ \A e \in Emails : DraftReplyClick(e) =>
              currentEmailForReply' =
                  [platform |-> e.platform, id |-> e.id, threadId |-> e.threadId,
                   messageIdHeader |-> e.message_id_header,
                   referencesHeader |-> e.references_header,
                   inReplyToHeader |-> e.in_reply_to_header,
                   fullDetails |-> Null]
       /\ (FullDetails(currentEmailForReply') # Null /\ currentEmailForReply # currentEmailForReply') =>
              \E i \in DOMAIN flows :
                  /\ flows[i].pc = "details"
                  /\ flows'[i] # flows[i]
                  /\ flows[i].req.id = currentEmailForReply.id
                  /\ flows[i].req.platform = currentEmailForReply.platform
                  /\ currentEmailForReply' =
                        [currentEmailForReply EXCEPT !.fullDetails = DetailsOf(flows[i].req.id)]
       /\ \A i \in DOMAIN flows' :
              (Issues(i) /\ flows'[i].req.url \in {"draft-ai-reply", "send-platform-reply"})
                  => FullDetails(currentEmailForReply') # Null]_vars

\* the handler of flow i finishes in this step
Finishes(i) == InFlight(i) /\ flows'[i].pc = "done"

ControlsEnabled == ~sendReplyBtnModal.disabled /\ ~regenerateDraftBtnModal.disabled

\* C4 as stated: whenever the handler of a details, draft, regenerate or send
\* request finishes, with any outcome, the send and regenerate controls are
\* enabled
C4_ControlsEnabledAfterAnyOutcome ==
    [][\A i \in DOMAIN flows : Finishes(i) => ControlsEnabled']_vars

\* C4 amended: the handlers of the details, draft and regenerate requests
\* enable both controls when they finish, with any outcome; the send handler
\* enables them when the send failed, and leaves them as they are when the
\* send succeeded
C4_ControlsEnabledUnlessSent ==
    [][\A i \in DOMAIN flows : Finishes(i) =>
          IF flows[i].kind = "send" /\ modalStatusMessages'.type = "success"
          THEN UNCHANGED controls
          ELSE ControlsEnabled']_vars

\* a handler has finished on a failure and the controls are enabled
C4_Witness ==
    /\ \E i \in DOMAIN flows : flows[i].pc = "done"
    /\ modalStatusMessages # NoStatus
    /\ modalStatusMessages.type = "danger"
    /\ modalStatusMessages.message # S_NoContext
    /\ ControlsEnabled

\* one of the reply fields is empty after trimming
SomeFieldEmpty ==
    \/ trim(modalReplyTo) = <<>>
    \/ trim(modalReplySubject) = <<>>
    \/ trim(modalReplyBody) = <<>>

\* C5 as stated: a 'send' click with one of reply-to, subject, body empty
\* after trimming issues no network call, leaves the controls and
\* currentEmailForReply unchanged, and shows a warning
C5_EmptyFieldNeverSends ==
    [][(SomeFieldEmpty /\ SendClick) =>
          /\ flows' = flows
          /\ inboxInFlight' = inboxInFlight
          /\ UNCHANGED <<controls, currentEmailForReply>>
          /\ modalStatusMessages'.type = "warning"]_vars

\* C5 amended: such a click issues no network call and leaves the controls
\* and currentEmailForReply unchanged; it shows a warning when fullDetails is
\* present, and the danger status of a missing reply context when it is not
C5_EmptyFieldNeverSendsAmended ==
    [][(SomeFieldEmpty /\ SendClick) =>
          /\ flows' = flows
          /\ inboxInFlight' = inboxInFlight
          /\ UNCHANGED <<controls, currentEmailForReply>>
          /\ modalStatusMessages'.type =
                IF FullDetails(currentEmailForReply) # Null THEN "warning" ELSE "danger"]_vars

\* the send handler has refused to send for an empty field, and with
\* fullDetails present
C5_Witness ==
    /\ modalStatusMessages # NoStatus
    /\ modalStatusMessages.message = S_Required
    /\ SomeFieldEmpty
    /\ FullDetails(currentEmailForReply) # Null

\* the send request resolved with HTTP success and status "success"
SentOk(r) == r.kind = "http" /\ r.ok /\ "status" \in DOMAIN r.json /\ r.json.status = S_Success

\* C7: when a send request resolves with HTTP success and status "success",
\* an inbox refresh request is issued and the hide timer is set in the same
\* step, while the modal is not yet closed by it; a send that resolves with
\* any other outcome neither sets the hide timer, nor closes the modal, nor
\* issues an inbox refresh
C7_RefreshBeforeClose ==
    [][\A i \in DOMAIN flows : \A r \in Responses(flows[i].req) :
          (flows'[i] # flows[i] /\ SendResume(i, r)) =>
             IF SentOk(r)
             THEN /\ inboxInFlight' = inboxInFlight + 1
                  /\ draftModal'.hideTimers = draftModal.hideTimers + 1
                  /\ draftModal'.shown = draftModal.shown
             ELSE UNCHANGED <<draftModal, inbox>>]_vars

\* a send succeeded: the hide timer is pending and the inbox is being fetched
C7_Witness ==
    /\ draftModal.hideTimers > 0
    /\ draftModal.shown
    /\ inboxInFlight > 0
    /\ modalStatusMessages # NoStatus
    /\ modalStatusMessages.type = "success"
    /\ startsWith(modalStatusMessages.message, S_SentVia)

\* the details request failed: rejected, non-2xx, or a payload with an error
DetailsFailure(r) == r.kind = "reject" \/ ~r.ok \/ "error" \in DOMAIN r.json

\* the text of the failure of a details request
DetailsFailureText(r) ==
    IF r.kind = "reject" THEN NetErrMsg
    ELSE IF ~r.ok THEN S_CouldNotFetch \o r.status \o S_Dash \o r.json.error
    ELSE r.json.error

DraftFailure(r) == r.kind = "reject" \/ ~r.ok \/ "draft" \notin DOMAIN r.json

\* C9: when a draft request (initial or regenerate) fails, the reply body
\* holds an error message, a failure status is shown, fullDetails is left
\* unchanged and populated, the controls are enabled, so that a following
\* 'regenerate' click issues a new draft request
C9_DraftFailureRecoverable ==
    [][\A i \in DOMAIN flows : \A r \in Responses(flows[i].req) :
          (/\ flows'[i] # flows[i]
           /\ DraftFailure(r)
           /\ (ReplyDraftResume(i, r) \/ RegenerateResume(i, r))) =>
             /\ \/ startsWith(modalReplyBody', S_ErrorColon)
                \/ startsWith(modalReplyBody', S_ErrGenerating)
                \/ startsWith(modalReplyBody', S_ErrRegenerating)
             /\ modalStatusMessages'.type = "danger"
             /\ currentEmailForReply' = currentEmailForReply
             /\ FullDetails(currentEmailForReply') # Null
             /\ ControlsEnabled']_vars

\* C10: a 'regenerate' click with fullDetails present issues exactly one
\* request, a draft request built from the cached fullDetails; neither the
\* click nor the continuation of the regenerate handler issues a details
\* request or changes currentEmailForReply, whatever the outcome
C10_RegenerateUsesCache ==
    [][/\ (FullDetails(currentEmailForReply) # Null /\ RegenerateClick) =>
             /\ Len(flows') = Len(flows) + 1
             /\ \A j \in DOMAIN flows : flows'[j] = flows[j]
             /\ flows'[Len(flows')].req =
                    [url |-> "draft-ai-reply",
                     platform |-> currentEmailForReply.platform,
                     userName |-> USER_NAME_FOR_PROMPT,
                     sender |-> currentEmailForReply.fullDetails.from,
                     subject |-> currentEmailForReply.fullDetails.subject,
                     body |-> currentEmailForReply.fullDetails.body]
             /\ inboxInFlight' = inboxInFlight
             /\ currentEmailForReply' = currentEmailForReply
       /\ \A i \in DOMAIN flows : \A r \in Responses(flows[i].req) :
             (flows'[i] # flows[i] /\ RegenerateResume(i, r)) =>
                /\ \A j \in DOMAIN flows' : ~Issues(j)
                /\ inboxInFlight' = inboxInFlight
                /\ currentEmailForReply' = currentEmailForReply]_vars

\* a regenerate request is in flight
C10_Witness ==
    \E i \in DOMAIN flows :
        /\ flows[i].kind = "regen"
        /\ flows[i].pc = "draft"
        /\ flows[i].req.sender = currentEmailForReply.fullDetails.from

\* the status text of a failed send
SendFailureText(r) ==
    IF r.kind = "reject" THEN S_FailedSend \o NetErrMsg
    ELSE S_ErrSending \o (IF "message" \in DOMAIN r.json /\ r.json.message # <<>>
                          THEN r.json.message ELSE S_UnknownServer)

\* the reply fields hold what the send request of flow i carried
FieldsAsSent(i) ==
    /\ trim(modalReplyTo) = flows[i].req.to
    /\ trim(modalReplySubject) = flows[i].req.subject
    /\ trim(modalReplyBody) = flows[i].req.body

\* C11: when a send request fails, the error is shown as a danger status,
\* the send and regenerate controls end up enabled, the step neither closes
\* the modal nor sets its hide timer, and it leaves the reply fields and
\* currentEmailForReply as they are; with the modal open and the fields as
\* they were sent, fullDetails is still present, so that a further 'send'
\* click passes the checks of the send handler
C11_SendFailureRetryable ==
    [][\A i \in DOMAIN flows : \A r \in Responses(flows[i].req) :
          (flows'[i] # flows[i] /\ ~SentOk(r) /\ SendResume(i, r)) =>
             /\ flows'[i].pc = "done"
             /\ \A j \in DOMAIN flows' : ~Issues(j)
             /\ modalStatusMessages'.type = "danger"
             /\ modalStatusMessages'.message = SendFailureText(r)
             /\ ControlsEnabled'
             /\ UNCHANGED <<draftModal, inbox, fields, currentEmailForReply>>
             /\ (draftModal.shown /\ FieldsAsSent(i)) =>
                    FullDetails(currentEmailForReply') # Null]_vars

\* a send failed: the error is shown in the open modal, the controls are
\* enabled and the reply fields still hold a complete reply
C11_Witness ==
    /\ modalStatusMessages # NoStatus
    /\ modalStatusMessages.type = "danger"
    /\ startsWith(modalStatusMessages.message, S_ErrSending)
    /\ ControlsEnabled
    /\ draftModal.shown
    /\ ~SomeFieldEmpty
    /\ FullDetails(currentEmailForReply) # Null

\* C18: in every reachable state, a non-null currentEmailForReply.fullDetails
\* is the details payload of the email currentEmailForReply selects; the
\* details response of a superseded flow is never stored into the newer
\* selection
C18_FullDetailsMatchSelection ==
    FullDetails(currentEmailForReply) # Null =>
        /\ \E e \in Emails : e.id = currentEmailForReply.id
                             /\ e.platform = currentEmailForReply.platform
        /\ currentEmailForReply.fullDetails = DetailsOf(currentEmailForReply.id)

\* the send request req belongs to the email e, whose details the modal shows
SendRequestOf(req, e) ==
    /\ req.platform = e.platform
    /\ req.originalMessageId = e.id
    /\ req.originalThreadId = e.threadId
    /\ req.inReplyToHeader = DetailsOf(e.id).in_reply_to_header
    /\ req.referencesHeader = DetailsOf(e.id).references_header
    /\ modalOriginalSender = escapeHtml(DetailsOf(e.id).from)
    /\ modalOriginalSubject = escapeHtml(DetailsOf(e.id).subject)
    /\ modalOriginalBody = escapeHtml(DetailsOf(e.id).body)

\* the draft request req carries the platform and the content of the email e
DraftRequestOf(req, e) ==
    /\ req.platform = e.platform
    /\ req.sender = DetailsOf(e.id).from
    /\ req.subject = DetailsOf(e.id).subject
    /\ req.body = DetailsOf(e.id).body

\* C19: every send request that is issued carries the identifiers, the
\* platform and the threading headers of one email, the one whose details
\* the modal displays at the click; every draft request that is issued
\* carries the platform of the email whose sender, subject and body it
\* carries
C19_RequestsConsistent ==
    [][\A i \in DOMAIN flows' : Issues(i) =>
          /\ flows'[i].req.url = "send-platform-reply" =>
                \E e \in Emails : SendRequestOf(flows'[i].req, e)
          /\ flows'[i].req.url = "draft-ai-reply" =>
                \E e \in Emails : DraftRequestOf(flows'[i].req, e)]_vars

\* the flow started last by a 'draft reply' or 'regenerate' click, 0 if none
LatestDraftingFlow ==
    LET started == { i \in DOMAIN flows : flows[i].kind # "send" } IN
    IF started = {} THEN 0 ELSE CHOOSE i \in started : \A j \in started : j <= i

\* C20: while the details or draft request of the flow started last (by a
\* 'draft reply' or a 'regenerate' click) is in flight, the send and
\* regenerate controls are disabled
C20_ControlsDisabledWhileDrafting ==
    InFlight(LatestDraftingFlow) =>
        sendReplyBtnModal.disabled /\ regenerateDraftBtnModal.disabled

\* the subject starts with "re:" in some letter case
StartsWithReAnyCase(sub) ==
    /\ Len(sub) >= 3
    /\ sub[1] \in {"r", "R"}
    /\ sub[2] \in {"e", "E"}
    /\ sub[3] = ":"

\* C17: once the reply subject is pre-filled from a details payload, it is
\* the subject S of the payload unchanged when S starts with "re:" in any
\* letter case, and "Re: " followed by S otherwise, a missing subject
\* counting as the empty string
C17_ReplySubjectPrefix ==
    (scope = "subject" /\ modalReplySubject # <<>>) =>
        LET S == IF "subject" \in DOMAIN arg THEN arg.subject ELSE <<>> IN
        modalReplySubject = IF StartsWithReAnyCase(S) THEN S ELSE <<"R", "e", ":", " ">> \o S

\* the reply subject was pre-filled from a subject that starts with "RE:"
C17_Witness ==
    /\ scope = "subject"
    /\ "subject" \in DOMAIN arg
    /\ Len(arg.subject) = 3
    /\ arg.subject[1] = "R"
    /\ arg.subject[2] = "E"
    /\ modalReplySubject = arg.subject

\* the chat request resolved with HTTP success and a response
ChatOk(r) ==
    r.kind = "http" /\ r.ok /\ "response" \in DOMAIN r.json /\ r.json.response # <<>>

\* chatHistory with the pair of the chat request i and its answer r appended
WithPair(i, r) ==
    chatHistory \o << [role |-> "user", content |-> pending[i].query],
                      [role |-> "ai", content |-> r.json.response] >>

\* later holds the last entries of earlier, in their order, and as many of
\* them as the limit allows
MostRecentOf(later, earlier) ==
    /\ Len(later) = (IF Len(earlier) > 20 THEN 20 ELSE Len(earlier))
    /\ \A k \in 1..Len(later) : later[k] = earlier[Len(earlier) - Len(later) + k]

\* C14: after every step chatHistory holds at most 20 entries, and when the
\* continuation of a chat request appends a pair, chatHistory holds the 20
\* most recently appended entries in their original order (all of them
\* while there are no more than 20)
C14_HistoryBounded ==
    [][/\ Len(chatHistory') <= 20
       /\ \A i \in DOMAIN pending : \A r \in Responses(pending[i]) :
             (pending' = Remove(pending, i) /\ ChatOk(r) /\ ChatResume(i, r)) =>
                 MostRecentOf(chatHistory', WithPair(i, r))]_vars

\* chatHistory is full, with distinguishable entries, the last answer is
\* displayed and no chat request is in flight
C14_Witness ==
    /\ Len(chatHistory) = 20
    /\ chatHistory[1] # chatHistory[3]
    /\ chatMessagesDiv.sender = "ai"
    /\ ChatInFlight = {}

\* the entries are user, assistant ('ai'), user, assistant, ...
Alternates(history) ==
    /\ Len(history) % 2 = 0
    /\ \A k \in DOMAIN history :
          history[k].role = (IF k % 2 = 1 THEN "user" ELSE "ai")

IsMarkup(c) == c \in {"<", ">", "\"", "'"}

\* the payload with every non-empty backend string replaced by "x"
Plain(payload) ==
    LET plain(str) == IF str = <<>> THEN <<>> ELSE <<"x">> IN
    CASE payload.site = "emailItem" ->
            [site |-> "emailItem",
             email |-> [f \in DOMAIN payload.email |-> plain(payload.email[f])]]
      [] payload.site = "inboxError" ->
            [site |-> "inboxError",
             resp |-> IF payload.resp.kind = "reject" THEN payload.resp
                      ELSE HttpResp(FALSE, Status500, [error |-> plain(payload.resp.json.error)])]
      [] payload.site = "chatMessage" ->
            [site |-> "chatMessage", message |-> plain(payload.message),
             sources |-> << [name |-> plain(payload.sources[1].name),
                             webUrl |-> plain(payload.sources[1].webUrl)] >>]

\* C16: no backend string reaches an innerHTML write unescaped: the tag and
\* attribute delimiters of the HTML written for a payload are those of the
\* template alone, that is, the same as for the payload with its strings
\* replaced by plain text
C16_BackendStringsEscaped ==
    (scope = "render" /\ innerHTML # Null) =>
        SelectSeq(innerHTML, IsMarkup) = SelectSeq(Rendered(Plain(arg)), IsMarkup)

\* a failure of the taxonomy: a rejected fetch, an HTTP error status, or an
\* error field or a status other than "success" in an answer that is ok
Failed(r) ==
    \/ r.kind = "reject"
    \/ ~r.ok
    \/ "error" \in DOMAIN r.json
    \/ ("status" \in DOMAIN r.json /\ r.json.status # S_Success)

\* the number of chat requests in flight
ChatRequests(reqs) == Cardinality({ i \in DOMAIN reqs : reqs[i].url = "chat-with-sp-docs" })

\* the number of details, draft, send, inbox and chat requests issued in
\* this step
Issued ==
    (IF flows' = flows THEN 0 ELSE Cardinality({ j \in DOMAIN flows' : Issues(j) }))
      + (IF inboxInFlight' > inboxInFlight THEN inboxInFlight' - inboxInFlight ELSE 0)
      + (IF Len(pending') > Len(pending)
         THEN ChatRequests(pending') - ChatRequests(pending) ELSE 0)

\* the step is one of the user's clicks (or the Enter key) that send a request
UserAction ==
    \/ \E e \in Emails : DraftReplyClick(e)
    \/ RegenerateClick
    \/ SendClick
    \/ RefreshClick
    \/ SendBtnClick
    \/ EnterKey

\* the step is the continuation of a request that succeeded and that the
\* code follows with the next request of the same user action: the draft
\* after the details, the inbox after the send
Chained ==
    \E i \in DOMAIN flows : \E r \in Responses(flows[i].req) :
        /\ ~Failed(r)
        /\ ReplyDetailsResume(i, r) \/ SendResume(i, r)

\* C12: a step issues at most one details, draft, send, inbox or chat
\* request, and one that does is a user action or the continuation of a
\* successful request of a user action; no step that leaves a request of
\* the reply workflow or of the inbox in flight is the continuation of a
\* failure of that request, and a step that shows an answer or an error in
\* the chat takes one chat request out of flight
C12_NoAutomaticRetry ==
    [][/\ Issued <= 1
       /\ Issued = 1 => (UserAction \/ Chained)
       /\ \A i \in DOMAIN flows :
             (flows[i].pc # "done" /\ flows'[i].pc # "done") =>
                \A r \in Responses(flows[i].req) :
                   Failed(r) => ~(\/ ReplyDetailsResume(i, r)
                                  \/ ReplyDraftResume(i, r)
                                  \/ RegenerateResume(i, r)
                                  \/ SendResume(i, r))
       /\ inboxInFlight' >= inboxInFlight =>
             \A r \in Responses([url |-> "emails"]) : Failed(r) => ~InboxResolve(r)
       /\ (chatMessagesDiv' # chatMessagesDiv /\ chatMessagesDiv'.sender = "ai") =>
             ChatRequests(pending') = ChatRequests(pending) - 1]_vars

\* a request of the reply workflow failed, its error is shown, and nothing
\* is in flight
C12_Witness ==
    /\ scope = "reply"
    /\ flows # <<>>
    /\ \A i \in DOMAIN flows : flows[i].pc = "done"
    /\ inboxInFlight = 0
    /\ modalStatusMessages # NoStatus
    /\ modalStatusMessages.type = "danger"

\* a status area shows the outcome of a handler: it is neither empty nor
\* holds a progress message
Reported(status) == status.type \notin {"none", "info", "processing"}

\* the request i is out of flight, and nothing but the list of documents is
\* fetched after it
Over(i) ==
    \/ pending' = Remove(pending, i)
    \/ pending' = Append(Remove(pending, i), [url |-> "list-indexed-documents"])

C21_SendWithoutContext ==
    [][(FullDetails(currentEmailForReply) = Null /\ SendClick) =>
          /\ flows' = flows
          /\ inboxInFlight' = inboxInFlight
          /\ pending' = pending
          /\ UNCHANGED <<controls, fields, draftModal, currentEmailForReply>>
          /\ modalStatusMessages'.type = "danger"
          /\ modalStatusMessages'.message = S_NoContext]_vars

\* the send handler has refused to send for want of fullDetails, with all
\* three reply fields filled in
C21_Witness ==
    /\ modalStatusMessages # NoStatus
    /\ modalStatusMessages.message = S_NoContext
    /\ FullDetails(currentEmailForReply) = Null
    /\ ~SomeFieldEmpty

\* C22: the delayed close of a successful send does not hide a modal that
\* shows an email selected after that send; such a modal is recognised by
\* fullDetails being null, which a 'draft reply' click makes it and which no
\* send request is issued with
C22_CloseOnlySendingModal ==
    [][(HideTimerFires /\ draftModal.shown) =>
          FullDetails(currentEmailForReply) # Null]_vars

\* C23: at most one chat request is in flight, and the send button of the
\* chat is disabled as long as one is
C23_OneChatRequest ==
    /\ Cardinality(ChatInFlight) <= 1
    /\ ChatInFlight # {} => sendBtn.disabled

\* C24: a click on the send button or an Enter key while the input is empty
\* after trimming adds no message to the chat display, issues no request,
\* and leaves chatHistory, the input field and the send button as they are
C24_BlankSubmitNoEffect ==
    [][(trim(userInput) = <<>> /\ (SendBtnClick \/ EnterKey)) =>
          /\ chatMessagesDiv' = chatMessagesDiv
          /\ pending' = pending
          /\ chatHistory' = chatHistory
          /\ userInput' = userInput
          /\ sendBtn' = sendBtn]_vars

\* the input holds a blank and nothing else, after an answer was shown, with
\* the send button enabled and no request in flight
C24_Witness ==
    /\ scope = "chat"
    /\ userInput = <<" ">>
    /\ ~sendBtn.disabled
    /\ ChatInFlight = {}
    /\ chatMessagesDiv.sender = "ai"

\* the request of the update handler is in flight
UpdateInFlight(reqs) ==
    \E i \in DOMAIN reqs :
        reqs[i].url = "update-knowledgebase" /\ reqs[i].by = "updateKbBtn"

\* the number of requests for the list of indexed documents in flight
DocsRequests(reqs) ==
    Cardinality({ i \in DOMAIN reqs : reqs[i].url = "list-indexed-documents" })

\* C25: while the request of the update handler is in flight, the update
\* and the connect button are disabled; the click puts the request in
\* flight and fetches no list; the step in which the request resolves, with
\* any outcome, enables both buttons, and it fetches the list of indexed
\* documents (once) only when the answer has an HTTP success status
C25_UpdateDisablesAndRefetches ==
    [][/\ UpdateInFlight(pending') =>
             (updateKbBtn'.disabled /\ connectMsGraphBtn'.disabled)
       /\ UpdateKbClick =>
             /\ UpdateInFlight(pending')
             /\ DocsRequests(pending') = DocsRequests(pending)
       /\ \A i \in DOMAIN pending : \A r \in Responses(pending[i]) :
             UpdateKbResume(i, r) =>
                /\ ~UpdateInFlight(pending')
                /\ ~updateKbBtn'.disabled
                /\ ~connectMsGraphBtn'.disabled
                /\ DocsRequests(pending') <= DocsRequests(pending) + 1
                /\ DocsRequests(pending') > DocsRequests(pending) =>
                      (r.kind = "http" /\ r.ok)]_vars

\* an update resolved with success: its status is shown, both buttons are
\* enabled and the list of indexed documents is being fetched
C25_Witness ==
    /\ scope = "kb"
    /\ kbStatusDiv # NoStatus
    /\ kbStatusDiv.type = "ok"
    /\ kbStatusDiv.message = S_UpdateCompleted
    /\ ~updateKbBtn.disabled
    /\ ~connectMsGraphBtn.disabled
    /\ DocsRequests(pending) > 0

====
